---- MODULE Spec2Model ----
(***************************************************************************)
(* A model of the action hypergraph of src/src/main/hypergraph.py: the     *)
(* Node / Edge / Relationship objects, the Hypergraph container with its   *)
(* construction operations, the Pathfinder closure search and the          *)
(* evaluator (simulate).                                                   *)
(*                                                                         *)
(* Python objects live in a heap: a Node is an index into hg.nodes (its    *)
(* identity), while the REACH / DIST / LAST maps of a Pathfinder are keyed *)
(* by label, as in the source.  A label is a sequence of one-character     *)
(* strings, so that label[0] and f'N{lastID}' are computed as in Python.   *)
(***************************************************************************)
EXTENDS Integers, Sequences, FiniteSets, TLC

VARIABLES
    hg,      \* the Hypergraph object (heap of nodes, node lists, lastID, pathfinders)
    pf,      \* the Pathfinder whose closure search is being stepped
    pc,      \* position of the running scenario
    call,    \* the last operation called, with its arguments
    pre,     \* the Hypergraph as it was before the last operation
    ret,     \* what the last operation returned
    steps    \* the number of operations called so far

vars == <<hg, pf, pc, call, pre, ret, steps>>

(***************************************************************************)
(* Bounds of the model.                                                    *)
(***************************************************************************)
MaxOps == 2

(***************************************************************************)
(* Values of the program.                                                  *)
(***************************************************************************)
\* float('inf'): larger than every cost the bounded graphs can produce.
Inf == 1000000

\* Python's None for a node index (indices start at 1).
NoNode == 0

\* Node.dependencies = None (a Simple node); a Compound node holds the list
\* of the indices of its dependencies, none of which is 0.
NoDeps == <<0>>

\* Node.value = None is <<>>, a value v is <<v>>.
NoValue == <<>>

Range(s) == {s[i] : i \in 1..Len(s)}

(***************************************************************************)
(* str(int), one character per element.                                    *)
(***************************************************************************)
DigitChar(d) == <<"0", "1", "2", "3", "4", "5", "6", "7", "8", "9">>[d + 1]

RECURSIVE NatStr(_)
NatStr(n) == IF n < 10 THEN <<DigitChar(n)>> ELSE NatStr(n \div 10) \o <<DigitChar(n % 10)>>

IntStr(n) == IF n < 0 THEN <<"-">> \o NatStr(-n) ELSE NatStr(n)

(***************************************************************************)
(* Relationship.  mapping is "first" (lambda l: l[0]), "sum", "negate", or *)
(* "None": a Relationship constructed without a mapping ends with          *)
(* self.mapping = None (line 34 overwrites line 33).  A label such as      *)
(* 'plus#rel' is the sequence <<"plus", "#", "rel">>.                      *)
(***************************************************************************)
RelLabel(name) == <<name, "#", "rel">>

Relationship(label, mapping) == [label |-> IF mapping = "None" THEN RelLabel("equivalent") ELSE label, mapping |-> mapping]

\* The rel argument left out by the caller (rel=None).
NoRel == [label |-> <<"None">>, mapping |-> "None"]

equiv_rel == Relationship(RelLabel("equivalent"), "first")

dotted_rel == Relationship(RelLabel("to"), "first")

plus_rel == Relationship(RelLabel("plus"), "sum")

negation_rel == Relationship(RelLabel("negate"), "negate")

equal_rel == Relationship(RelLabel("equal"), "first")

RECURSIVE SumOf(_)
SumOf(values) == IF values = <<>> THEN 0 ELSE Head(values)[1] + SumOf(Tail(values))

\* A slip that lets every relationship return its first input.
Apply_First(rel, values) == [val |-> values[1], err |-> "none"]

\* Relationship.__call__ on a list of values (a value is <<v>>, None is <<>>):
\* the value returned and the exception raised.
Apply(rel, values) ==
    IF rel.mapping = "None" THEN [val |-> <<>>, err |-> "TypeError"]
    ELSE IF rel.mapping = "first" THEN [val |-> values[1], err |-> "none"]
    ELSE IF \E i \in 1..Len(values) : values[i] = <<>> THEN [val |-> <<>>, err |-> "TypeError"]
    ELSE IF rel.mapping = "sum" THEN [val |-> <<SumOf(values)>>, err |-> "none"]
    ELSE [val |-> <<-values[1][1]>>, err |-> "none"]

(***************************************************************************)
(* Node and Edge.                                                          *)
(***************************************************************************)
\* A slip that stores the dependencies of a node in reverse order.
Node_DepsReversed(label, dependencies) == [label |-> label, full_edges |-> <<>>, dotted_edges |-> <<>>, dependencies |-> [i \in 1..Len(dependencies) |-> dependencies[Len(dependencies) + 1 - i]], value |-> NoValue, id |-> -1]

Node(label, dependencies) == [label |-> label, full_edges |-> <<>>, dotted_edges |-> <<>>, dependencies |-> dependencies, value |-> NoValue, id |-> -1]

isSimple(n) == n.dependencies = NoDeps

Edge(source, target, weight, rel) == [source |-> source, target |-> target, weight |-> weight, rel |-> IF rel = NoRel THEN Relationship(RelLabel("equivalent"), "None") ELSE rel]

\* LAST[label] = None
NoEdge == [source |-> NoNode, target |-> NoNode, weight |-> 0, rel |-> NoRel]

\* Node.addEdge: the edge goes to full_edges when the target is Simple and
\* to dotted_edges otherwise; weight and rel are stored as given.
NodeAddEdge(h, s, t, weight, rel) ==
    LET edge == Edge(s, t, weight, rel)
    IN  IF isSimple(h.nodes[t])
        THEN [h EXCEPT !.nodes[s].full_edges = Append(@, edge)]
        ELSE [h EXCEPT !.nodes[s].dotted_edges = Append(@, edge)]

\* Node.addEdges(nodes, weights): zip(nodes, weights, rels) with rels all None.
RECURSIVE NodeAddEdges(_, _, _, _)
NodeAddEdges(h, s, ts, weights) ==
    IF ts = <<>> \/ weights = <<>> THEN h
    ELSE NodeAddEdges(NodeAddEdge(h, s, Head(ts), Head(weights), NoRel), s, Tail(ts), Tail(weights))

(***************************************************************************)
(* Hypergraph.                                                             *)
(***************************************************************************)
NewHypergraph == [nodes |-> <<>>, simple_nodes |-> <<>>, compnd_nodes |-> <<>>, lastID |-> 0, pathfinders |-> <<>>]

\* A Node object is created: it gets the next heap index.
Alloc(h, n) == [h EXCEPT !.nodes = Append(@, n)]

getNodes(h) == h.simple_nodes \o h.compnd_nodes

\* The first node of the list ns that carries the label, or None.
RECURSIVE FirstWithLabel(_, _, _)
FirstWithLabel(h, ns, label) ==
    IF ns = <<>> THEN NoNode
    ELSE IF h.nodes[Head(ns)].label = label THEN Head(ns)
    ELSE FirstWithLabel(h, Tail(ns), label)

\* getNode(label, toMake=False)
getNode(h, label) == FirstWithLabel(h, getNodes(h), label)

assignID(h, n) == [h EXCEPT !.nodes[n].id = h.lastID, !.lastID = h.lastID + 1]

\* addNode(node) for a Node object n of the heap.
addNode(h, n) ==
    LET taken == \E m \in Range(getNodes(h)) : h.nodes[m].label = h.nodes[n].label
        h1 == IF taken THEN [h EXCEPT !.nodes[n].label = <<"N">> \o IntStr(h.lastID)] ELSE h
        h2 == assignID(h1, n)
    IN  IF isSimple(h2.nodes[n])
        THEN [h2 EXCEPT !.simple_nodes = Append(@, n)]
        ELSE [h2 EXCEPT !.compnd_nodes = Append(@, n)]

\* addNode(label): the string becomes a new Simple Node first.
addNodeStr(h, label) == addNode(Alloc(h, Node(label, NoDeps)), Len(h.nodes) + 1)

\* A slip that makes a node for the label whether or not one exists.
getNodeMake_Always(h, label) ==
    LET h1 == addNodeStr(h, label) IN [hg |-> h1, node |-> getNode(h1, label)]

\* getNode(label, toMake=True): the graph after the call and the node found.
getNodeMake(h, label) ==
    IF getNode(h, label) # NoNode THEN [hg |-> h, node |-> getNode(h, label)]
    ELSE LET h1 == addNodeStr(h, label) IN [hg |-> h1, node |-> getNode(h1, label)]

\* for i, node in enumerate(source): source[i] = getNode(node, toMake=True)
RECURSIVE ResolveSources(_, _, _)
ResolveSources(h, labels, done) ==
    IF labels = <<>> THEN [hg |-> h, nodes |-> done]
    ELSE LET r == getNodeMake(h, Head(labels))
         IN  ResolveSources(r.hg, Tail(labels), Append(done, r.node))

\* label = ''.join([p.label[0] for p in dependencies])
RECURSIVE FirstChars(_, _)
FirstChars(h, deps) ==
    IF deps = <<>> THEN <<>> ELSE <<Head(h.nodes[Head(deps)].label)>> \o FirstChars(h, Tail(deps))

\* A slip that hangs the hyperedge's own edge on the first dependency
\* instead of on the new Compound node.
makeNewCompoundNode_EdgeFromDep(h, dependencies, target, weight, rel) ==
    LET new_cmpnd_node == Len(h.nodes) + 1
        h1 == Alloc(h, Node(FirstChars(h, dependencies), dependencies))
        h2 == NodeAddEdge(h1, Head(dependencies), target, weight, rel)
    IN  [hg |-> addNode(h2, new_cmpnd_node), node |-> new_cmpnd_node]

\* makeNewCompoundNode: the graph after the call and the new Compound node.
makeNewCompoundNode(h, dependencies, target, weight, rel) ==
    LET new_cmpnd_node == Len(h.nodes) + 1
        h1 == Alloc(h, Node(FirstChars(h, dependencies), dependencies))
        h2 == NodeAddEdge(h1, new_cmpnd_node, target, weight, rel)
    IN  [hg |-> addNode(h2, new_cmpnd_node), node |-> new_cmpnd_node]

\* for node in source: node.addEdge(target, weight, rel)
RECURSIVE AddEdgesFrom(_, _, _, _, _)
AddEdgesFrom(h, source, target, weight, rel) ==
    IF source = <<>> THEN h
    ELSE AddEdgesFrom(NodeAddEdge(h, Head(source), target, weight, rel), Tail(source), target, weight, rel)

\* A slip that keeps the caller's weight on an edge into a Compound node.
TargetWeight_Kept(h, target, weight) == weight

\* if not target.isSimple(): weight = 0
TargetWeight(h, target, weight) == IF ~isSimple(h.nodes[target]) THEN 0 ELSE weight

\* A slip that keeps the caller's relationship on an edge into a Compound node.
TargetRel_Kept(h, target, rel) == rel

\* if not target.isSimple(): rel = self.dotted_rel
TargetRel(h, target, rel) == IF ~isSimple(h.nodes[target]) THEN dotted_rel ELSE rel

\* Hypergraph.addEdge(source, target, rel, weight) with string labels.
addEdge(h, source, target, rel, weight) ==
    LET rs == ResolveSources(h, source, <<>>)
        rt == getNodeMake(rs.hg, target)
        rel1 == IF rel = NoRel THEN equiv_rel ELSE rel
        promote == Len(rs.nodes) > 1 /\ isSimple(rt.hg.nodes[rt.node])
        rc == IF promote THEN makeNewCompoundNode(rt.hg, rs.nodes, rt.node, weight, rel1) ELSE rt
    IN  AddEdgesFrom(rc.hg, rs.nodes, rc.node, TargetWeight(rc.hg, rc.node, weight), TargetRel(rc.hg, rc.node, rel1))

(***************************************************************************)
(* Pathfinder: the closure search.  REACH, DIST and LAST are functions of  *)
(* the label; a queue element is the pair (D, edge).  error names the      *)
(* exception that ended the search, "none" when there was none.            *)
(***************************************************************************)
NoPathfinder == [source |-> NoNode, source_set |-> <<>>, REACH |-> <<>>, DIST |-> <<>>, LAST |-> <<>>, p_queue |-> <<>>, sim_str |-> <<>>, error |-> "none"]

LabelSource == <<"s", "o", "u", "r", "c", "e">>

LabelOf(h, n) == h.nodes[n].label

LabelsOf(h, ns) == {LabelOf(h, ns[i]) : i \in 1..Len(ns)}

\* float arithmetic with inf: inf + w = inf.
AddInf(a, b) == IF a >= Inf \/ b >= Inf THEN Inf ELSE a + b

MaxOf(S) == CHOOSE x \in S : \A y \in S : y <= x

MinOf(S) == CHOOSE x \in S : \A y \in S : x <= y

\* [0]*len(source_set)
RECURSIVE Zeros(_)
Zeros(n) == IF n = 0 THEN <<>> ELSE <<0>> \o Zeros(n - 1)

\* makeSourceSet: a new Simple node "source" with a zero-weight edge to each
\* node of the source set; it is appended to hg.simple_nodes as it is.
makeSourceSet(h, source_set) ==
    LET source_node == Len(h.nodes) + 1
        h1 == Alloc(h, Node(LabelSource, NoDeps))
        h2 == NodeAddEdges(h1, source_node, source_set, Zeros(Len(source_set)))
    IN  [hg |-> [h2 EXCEPT !.simple_nodes = Append(@, source_node)], node |-> source_node]

\* configureSource: source[0] is taken only when the list is empty (an
\* IndexError); every other list gets a synthetic source node.
configureSource(h, p, source) ==
    IF Len(source) = 0
    THEN [hg |-> h, pf |-> [p EXCEPT !.source_set = source, !.error = "IndexError"]]
    ELSE LET r == makeSourceSet(h, source)
         IN  [hg |-> r.hg, pf |-> [p EXCEPT !.source_set = source, !.source = r.node]]

\* The value the loops of initializeData leave under a label: a later node
\* of the list overwrites an earlier one with the same label.
RECURSIVE LastWithLabel(_, _, _)
LastWithLabel(h, ns, label) ==
    IF ns = <<>> THEN NoNode
    ELSE IF LabelOf(h, ns[Len(ns)]) = label THEN ns[Len(ns)]
    ELSE LastWithLabel(h, SubSeq(ns, 1, Len(ns) - 1), label)

\* REACH after initializeData: 1 for a Simple node, len(dependencies) for a
\* Compound node (the Compound loop runs second).
InitialReach(h, label) ==
    IF label \in LabelsOf(h, h.compnd_nodes)
    THEN Len(h.nodes[LastWithLabel(h, h.compnd_nodes, label)].dependencies)
    ELSE 1

initializeData(h, p) ==
    [p EXCEPT !.REACH = [l \in LabelsOf(h, getNodes(h)) |-> InitialReach(h, l)],
              !.DIST = [l \in LabelsOf(h, getNodes(h)) |-> Inf],
              !.LAST = [l \in LabelsOf(h, h.simple_nodes) |-> NoEdge]]

\* findInQueue: the position of the first element whose edge targets a node
\* equal to (labelled as) the given node, or 0.
RECURSIVE findInQueue(_, _, _, _)
findInQueue(h, q, node, i) ==
    IF i > Len(q) THEN 0
    ELSE IF LabelOf(h, q[i].edge.target) = LabelOf(h, node) THEN i
    ELSE findInQueue(h, q, node, i + 1)

\* A slip that lowers the cost of the entry and keeps its edge.
checkQueueToUpdate_CostOnly(h, p, D, edge) ==
    LET i == findInQueue(h, p.p_queue, edge.target, 1)
    IN  IF i # 0 /\ D < p.p_queue[i].D THEN [p EXCEPT !.p_queue[i].D = D] ELSE p

\* A slip that also replaces the entry on an equal cost.
checkQueueToUpdate_OnEqual(h, p, D, edge) ==
    LET i == findInQueue(h, p.p_queue, edge.target, 1)
    IN  IF i # 0 /\ D <= p.p_queue[i].D THEN [p EXCEPT !.p_queue[i] = [D |-> D, edge |-> edge]] ELSE p

checkQueueToUpdate(h, p, D, edge) ==
    LET i == findInQueue(h, p.p_queue, edge.target, 1)
    IN  IF i # 0 /\ D < p.p_queue[i].D THEN [p EXCEPT !.p_queue[i] = [D |-> D, edge |-> edge]] ELSE p

\* A slip that leaves the edge weight out of the candidate cost.
ScanCost_NoWeight(h, p, edge) == p.DIST[LabelOf(h, edge.source)]

\* D = edge.weight + self.dist(t)
ScanCost(h, p, edge) == AddInf(edge.weight, p.DIST[LabelOf(h, edge.source)])

\* A slip that queues an unvisited target without marking it visited.
scan_NoMark(h, p, edge) ==
    IF p.REACH[LabelOf(h, edge.target)] = 1
    THEN [p EXCEPT !.p_queue = Append(@, [D |-> ScanCost(h, p, edge), edge |-> edge])]
    ELSE checkQueueToUpdate(h, p, ScanCost(h, p, edge), edge)

scan(h, p, edge) ==
    LET x == LabelOf(h, edge.target)
        D == ScanCost(h, p, edge)
    IN  IF p.REACH[x] = 1
        THEN [p EXCEPT !.REACH[x] = @ - 1, !.p_queue = Append(@, [D |-> D, edge |-> edge])]
        ELSE checkQueueToUpdate(h, p, D, edge)

\* for edge in edges: self.scan(edge)
RECURSIVE ScanAll(_, _, _)
ScanAll(h, p, edges) ==
    IF edges = <<>> THEN p ELSE ScanAll(h, scan(h, p, Head(edges)), Tail(edges))

\* A slip that adds the dependencies' distances up.
RECURSIVE SumDist(_, _, _)
SumDist(h, p, deps) ==
    IF deps = <<>> THEN 0 ELSE AddInf(p.DIST[LabelOf(h, Head(deps))], SumDist(h, p, Tail(deps)))

CompoundDist_Sum(h, p, z) == SumDist(h, p, h.nodes[z].dependencies)

\* A slip that settles a Compound node at its cheapest dependency.
CompoundDist_Min(h, p, z) == MinOf({p.DIST[LabelOf(h, h.nodes[z].dependencies[i])] : i \in 1..Len(h.nodes[z].dependencies)})

\* max([self.dist(d) for d in z.dependencies])
CompoundDist(h, p, z) == MaxOf({p.DIST[LabelOf(h, h.nodes[z].dependencies[i])] : i \in 1..Len(h.nodes[z].dependencies)})

\* A slip that settles a Compound node without scanning its full edges.
ReachCompound_NoScan(h, p, edge) ==
    LET z == edge.target
        p1 == [p EXCEPT !.REACH[LabelOf(h, z)] = @ - 1]
    IN  IF p1.REACH[LabelOf(h, z)] = 0 THEN [p1 EXCEPT !.DIST[LabelOf(h, z)] = CompoundDist(h, p1, z)] ELSE p1

\* A slip that charges the weight of the dotted edge to the Compound node.
ReachCompound_Weighted(h, p, edge) ==
    LET z == edge.target
        p1 == [p EXCEPT !.REACH[LabelOf(h, z)] = @ - 1]
    IN  IF p1.REACH[LabelOf(h, z)] = 0
        THEN ScanAll(h, [p1 EXCEPT !.DIST[LabelOf(h, z)] = AddInf(edge.weight, CompoundDist(h, p1, z))], h.nodes[z].full_edges)
        ELSE p1

\* The body of the loop over t.dotted_edges, for one edge.
ReachCompound(h, p, edge) ==
    LET z == edge.target
        p1 == [p EXCEPT !.REACH[LabelOf(h, z)] = @ - 1]
    IN  IF p1.REACH[LabelOf(h, z)] = 0
        THEN ScanAll(h, [p1 EXCEPT !.DIST[LabelOf(h, z)] = CompoundDist(h, p1, z)], h.nodes[z].full_edges)
        ELSE p1

RECURSIVE ReachCompoundAll(_, _, _)
ReachCompoundAll(h, p, edges) ==
    IF edges = <<>> THEN p ELSE ReachCompoundAll(h, ReachCompound(h, p, Head(edges)), Tail(edges))

\* The scan of getMinQueueEl: the position of the first element whose D is
\* strictly below every D before it and below inf; 0 when there is none.
RECURSIVE MinScan(_, _, _, _)
MinScan(q, i, min_val, min_pos) ==
    IF i > Len(q) THEN min_pos
    ELSE IF q[i].D < min_val THEN MinScan(q, i + 1, q[i].D, i)
    ELSE MinScan(q, i + 1, min_val, min_pos)

\* A slip that pops the oldest element instead of the cheapest.
MinQueuePos_First(q) == IF q = <<>> THEN 0 ELSE 1

MinQueuePos(q) == MinScan(q, 1, Inf, 0)

RemoveAt(q, i) == SubSeq(q, 1, i - 1) \o SubSeq(q, i + 1, Len(q))

\* One pass of the while loop of findPaths: pop the minimum, settle its
\* target, scan its full edges, count down the targets of its dotted edges.
\* p_queue.remove((inf, None)) raises ValueError when no element is below inf.
SettleStep(h, p) ==
    LET i == MinQueuePos(p.p_queue)
    IN  IF i = 0 THEN [p EXCEPT !.error = "ValueError"]
        ELSE LET D == p.p_queue[i].D
                 curr_edge == p.p_queue[i].edge
                 t == curr_edge.target
                 p1 == [p EXCEPT !.p_queue = RemoveAt(@, i), !.DIST[LabelOf(h, t)] = D, !.LAST[LabelOf(h, t)] = curr_edge]
                 p2 == ScanAll(h, p1, h.nodes[t].full_edges)
             IN  ReachCompoundAll(h, p2, h.nodes[t].dotted_edges)

\* findPaths up to the loop: the graph and the Pathfinder before the first pop.
findPathsStart(h, p, source) ==
    LET c == configureSource(h, p, source)
        p1 == initializeData(c.hg, c.pf)
    IN  IF c.pf.error # "none" THEN c
        ELSE [hg |-> c.hg, pf |-> [p1 EXCEPT !.p_queue = <<[D |-> 0, edge |-> Edge(c.pf.source, c.pf.source, 0, NoRel)]>>, !.REACH[LabelOf(c.hg, c.pf.source)] = 0]]

\* while len(self.p_queue) != 0
RECURSIVE findPathsLoop(_, _)
findPathsLoop(h, p) ==
    IF p.p_queue = <<>> \/ p.error # "none" THEN p ELSE findPathsLoop(h, SettleStep(h, p))

\* findPaths(source), and with it Pathfinder(hg, source).
findPaths(h, p, source) ==
    LET c == findPathsStart(h, p, source)
    IN  [hg |-> c.hg, pf |-> findPathsLoop(c.hg, c.pf)]

\* getPath returns None
NoPath == <<NoNode>>

\* getPath raised AttributeError: self.last(curr) on a node whose LAST is None.
PathError == <<-1>>

\* while len(to_process) != 0, with the list used as a stack.
RECURSIVE getPathLoop(_, _, _, _)
getPathLoop(h, p, to_process, path) ==
    IF to_process = <<>> THEN path
    ELSE LET curr == to_process[Len(to_process)]
             rest == SubSeq(to_process, 1, Len(to_process) - 1)
         IN  IF LabelOf(h, curr) = LabelOf(h, p.source) THEN getPathLoop(h, p, rest, Append(path, curr))
             ELSE IF isSimple(h.nodes[curr]) /\ p.LAST[LabelOf(h, curr)] = NoEdge THEN PathError
             ELSE IF isSimple(h.nodes[curr]) THEN getPathLoop(h, p, Append(rest, p.LAST[LabelOf(h, curr)].source), Append(path, curr))
             ELSE getPathLoop(h, p, rest \o h.nodes[curr].dependencies, Append(path, curr))

Reverse(s) == [i \in 1..Len(s) |-> s[Len(s) + 1 - i]]

getPath(h, p, node) ==
    IF p.REACH[LabelOf(h, node)] # 0 THEN NoPath
    ELSE IF getPathLoop(h, p, <<node>>, <<>>) = PathError THEN PathError
    ELSE Reverse(getPathLoop(h, p, <<node>>, <<>>))

(***************************************************************************)
(* The evaluator.  An input mapping is the sequence of its (label, value)  *)
(* items in the order of the dict; a result is the record of the graph     *)
(* after the call, the value returned (<<v>>, or <<>> for None) and the    *)
(* exception raised ("none" when the call returned).                       *)
(***************************************************************************)
Item(label, value) == [label |-> label, value |-> value]

InputLabels(inputs) == [i \in 1..Len(inputs) |-> inputs[i].label]

\* [self.getNode(l) for l in labels]
SourceNodes(h, labels) == [i \in 1..Len(labels) |-> getNode(h, labels[i])]

\* setNodeValues(values: dict): the first node carrying a key gets the value;
\* a key that names no node changes nothing.
RECURSIVE setNodeValues(_, _)
setNodeValues(h, inputs) ==
    IF inputs = <<>> THEN h
    ELSE LET n == getNode(h, Head(inputs).label)
         IN  setNodeValues(IF n = NoNode THEN h ELSE [h EXCEPT !.nodes[n].value = <<Head(inputs).value>>], Tail(inputs))

\* rel.label.split('#')[0]
RECURSIVE BeforeHash(_)
BeforeHash(label) ==
    IF label = <<>> \/ Head(label) = "#" THEN <<>> ELSE <<Head(label)>> \o BeforeHash(Tail(label))

Take(chars, n) == SubSeq(chars, 1, IF Len(chars) < n THEN Len(chars) ELSE n)

\* str(value)
ValueStr(value) == IF value = NoValue THEN <<"None">> ELSE IntStr(value[1])

\* Edge.printNodeLabel: the label, then ':' and the first 4 characters of
\* the value when there is a value.
printNodeLabel(h, n) ==
    LabelOf(h, n) \o (IF h.nodes[n].value = NoValue THEN <<>> ELSE <<":">> \o Take(IntStr(h.nodes[n].value[1]), 4))

\* ','.join of the labels of the dependencies
RECURSIVE JoinNodeLabels(_, _)
JoinNodeLabels(h, ns) ==
    IF ns = <<>> THEN <<>>
    ELSE IF Len(ns) = 1 THEN printNodeLabel(h, Head(ns))
    ELSE printNodeLabel(h, Head(ns)) \o <<",">> \o JoinNodeLabels(h, Tail(ns))

\* Edge.__str__
EdgeStr(h, edge) ==
    IF ~isSimple(h.nodes[edge.target]) THEN <<>>
    ELSE BeforeHash(edge.rel.label) \o <<":", " ", "[">>
         \o (IF isSimple(h.nodes[edge.source]) THEN printNodeLabel(h, edge.source) ELSE JoinNodeLabels(h, h.nodes[edge.source].dependencies))
         \o <<"]", " ", "-", ">", " ">> \o LabelOf(h, edge.target) \o <<":">> \o ValueStr(h.nodes[edge.target].value)

SimResult(h, p, val, err) == [hg |-> h, pf |-> p, val |-> val, err |-> err]

\* A slip that takes every node that holds a value for a given one.
IsInput_OrValued(h, node, inputs) ==
    \/ \E i \in 1..Len(inputs) : inputs[i] # NoNode /\ node # NoNode /\ LabelOf(h, inputs[i]) = LabelOf(h, node)
    \/ node # NoNode /\ h.nodes[node].value # NoValue

\* node in inputs
IsInput(h, node, inputs) ==
    \E i \in 1..Len(inputs) : inputs[i] # NoNode /\ node # NoNode /\ LabelOf(h, inputs[i]) = LabelOf(h, node)

\* A slip that returns the value without caching it on the node.
StoreValue_Skipped(h, node, val) == h

\* node.value = val
StoreValue(h, node, val) == [h EXCEPT !.nodes[node].value = val]

\* simulationHelper(node, inputs), and the list comprehension over the
\* dependencies of a Compound source (vals gathers the values).
RECURSIVE simulationHelper(_, _, _, _)
RECURSIVE simulateParents(_, _, _, _, _)
simulationHelper(h, p, node, inputs) ==
    IF IsInput(h, node, inputs)
    THEN SimResult(h, p, h.nodes[node].value, "none")
    ELSE IF node = NoNode THEN SimResult(h, p, NoValue, "AttributeError")
    ELSE IF LabelOf(h, node) \notin DOMAIN p.LAST THEN SimResult(h, p, NoValue, "KeyError")
    ELSE IF p.LAST[LabelOf(h, node)] = NoEdge THEN SimResult(h, p, NoValue, "AttributeError")
    ELSE LET edge == p.LAST[LabelOf(h, node)]
             r == IF isSimple(h.nodes[edge.source])
                  THEN LET r1 == simulationHelper(h, p, edge.source, inputs) IN [r1 EXCEPT !.val = <<r1.val>>]
                  ELSE simulateParents(h, p, h.nodes[edge.source].dependencies, inputs, <<>>)
             a == Apply(edge.rel, r.val)
             h1 == StoreValue(r.hg, node, a.val)
         IN  IF r.err # "none" THEN SimResult(r.hg, r.pf, NoValue, r.err)
             ELSE IF a.err # "none" THEN SimResult(r.hg, r.pf, NoValue, a.err)
             ELSE SimResult(h1, [r.pf EXCEPT !.sim_str = Append(@, EdgeStr(h1, edge))], a.val, "none")

simulateParents(h, p, parents, inputs, vals) ==
    IF parents = <<>> THEN SimResult(h, p, vals, "none")
    ELSE LET r == simulationHelper(h, p, Head(parents), inputs)
         IN  IF r.err # "none" THEN r
             ELSE simulateParents(r.hg, r.pf, Tail(parents), inputs, Append(vals, r.val))

\* A slip that keeps the step trace of the previous run.
ResetTrace_Kept(p) == p

\* self.sim_str = list()
ResetTrace(p) == [p EXCEPT !.sim_str = <<>>]

\* Pathfinder.simulate(target, input_values) on the Pathfinder p: the closure
\* is computed again when an input node has a non-zero DIST.
pfSimulate(h, p, target, inputs) ==
    LET p0 == ResetTrace(p)
        input_nodes == SourceNodes(h, InputLabels(inputs))
        again == \E i \in 1..Len(input_nodes) : p0.DIST[LabelOf(h, input_nodes[i])] # 0
        c == IF again
             THEN LET c1 == configureSource(h, p0, input_nodes) IN findPaths(c1.hg, c1.pf, input_nodes)
             ELSE [hg |-> h, pf |-> p0]
    IN  IF \E i \in 1..Len(input_nodes) : LabelOf(h, input_nodes[i]) \notin DOMAIN p0.DIST
        THEN SimResult(h, p0, NoValue, "KeyError")
        ELSE IF c.pf.error # "none" THEN SimResult(c.hg, c.pf, NoValue, c.pf.error)
        ELSE simulationHelper(setNodeValues(c.hg, inputs), c.pf, getNode(c.hg, target), input_nodes)

\* input_nodes == pf.source_set: two lists of nodes are equal when they
\* have the same length and equal (equally labelled) nodes at each place.
SameNodeList(h, a, b) == Len(a) = Len(b) /\ \A i \in 1..Len(a) : LabelOf(h, a[i]) = LabelOf(h, b[i])

\* The loop of findPathfinder: the position of the first Pathfinder whose
\* source_set equals input_nodes, or 0.
RECURSIVE CachedPathfinder(_, _, _)
CachedPathfinder(h, input_nodes, i) ==
    IF i > Len(h.pathfinders) THEN 0
    ELSE IF SameNodeList(h, input_nodes, h.pathfinders[i].source_set) THEN i
    ELSE CachedPathfinder(h, input_nodes, i + 1)

\* A slip that keeps REACH, DIST and LAST in one place for all the
\* Pathfinders of a graph.
findPathfinder_SharedMaps(h, input_nodes) ==
    LET i == CachedPathfinder(h, input_nodes, 1)
        c == findPaths(h, NoPathfinder, input_nodes)
        shared == [k \in 1..Len(h.pathfinders) |-> [h.pathfinders[k] EXCEPT !.REACH = c.pf.REACH, !.DIST = c.pf.DIST, !.LAST = c.pf.LAST]]
    IN  IF i # 0 THEN [hg |-> h, idx |-> i, err |-> "none"]
        ELSE IF c.pf.error # "none" THEN [hg |-> c.hg, idx |-> 0, err |-> c.pf.error]
        ELSE [hg |-> [c.hg EXCEPT !.pathfinders = Append(shared, c.pf)], idx |-> Len(h.pathfinders) + 1, err |-> "none"]

\* findPathfinder(input_nodes): the graph after the call, the position of
\* the Pathfinder in hg.pathfinders, and the exception of a failed search.
findPathfinder(h, input_nodes) ==
    LET i == CachedPathfinder(h, input_nodes, 1)
        c == findPaths(h, NoPathfinder, input_nodes)
    IN  IF i # 0 THEN [hg |-> h, idx |-> i, err |-> "none"]
        ELSE IF c.pf.error # "none" THEN [hg |-> c.hg, idx |-> 0, err |-> c.pf.error]
        ELSE [hg |-> [c.hg EXCEPT !.pathfinders = Append(@, c.pf)], idx |-> Len(h.pathfinders) + 1, err |-> "none"]

\* out_val = sim_pf.simulate(target, input_values) on the Pathfinder that
\* findPathfinder returned (f): the object is updated in place in
\* hg.pathfinders.
simulateWith(f, target, inputs) ==
    IF f.err # "none" THEN [hg |-> f.hg, idx |-> 0, val |-> NoValue, err |-> f.err]
    ELSE CHOOSE out \in {[hg |-> [r.hg EXCEPT !.pathfinders[f.idx] = r.pf], idx |-> f.idx, val |-> r.val, err |-> r.err] :
                            r \in {pfSimulate(f.hg, f.hg.pathfinders[f.idx], target, inputs)}} : TRUE

\* A slip that stores the input values before looking the labels up.
simulate_ValuesFirst(h, target, inputs) ==
    IF NoNode \in Range(SourceNodes(h, InputLabels(inputs)))
    THEN [hg |-> setNodeValues(h, inputs), idx |-> 0, val |-> NoValue, err |-> "Exception"]
    ELSE CHOOSE out \in {simulateWith(f, target, inputs) : f \in {findPathfinder(h, SourceNodes(h, InputLabels(inputs)))}} : TRUE

\* Hypergraph.simulate(target, input_values): the graph after the call, the
\* position of the Pathfinder that served it, the value returned and the
\* exception raised.
simulate(h, target, inputs) ==
    IF NoNode \in Range(SourceNodes(h, InputLabels(inputs)))
    THEN [hg |-> h, idx |-> 0, val |-> NoValue, err |-> "Exception"]
    ELSE CHOOSE out \in {simulateWith(f, target, inputs) : f \in {findPathfinder(h, SourceNodes(h, InputLabels(inputs)))}} : TRUE

(***************************************************************************)
(* Graph construction: callers build a Hypergraph with addNode and         *)
(* addEdge, and may also add edges on Node objects directly, as            *)
(* test/traversing_test.py does with Node.addEdges.                        *)
(***************************************************************************)
LabelA == <<"A">>

LabelB == <<"B">>

LabelC == <<"C">>

LabelAB == <<"A", "B">>

LabelN1 == <<"N", "1">>

\* Labels handed to addNode, source lists and targets handed to addEdge.
NodeLabels == {LabelA, LabelN1, LabelAB}

SourceLists == {<<LabelA>>, <<LabelA, LabelB>>, <<LabelB, LabelA>>}

TargetLabels == {LabelA, LabelC, LabelAB}

\* weight=1.0 when the caller gives none.
DefaultWeight == 1

GivenWeights == {3}

GivenRels == {NoRel, plus_rel}

NoCall == [op |-> "none", source |-> <<>>, target |-> <<>>, rel |-> NoRel, weight |-> 0, given |-> FALSE, inputs |-> <<>>]

Init ==
    /\ hg = NewHypergraph
    /\ pf = NoPathfinder
    /\ pc = "build"
    /\ call = NoCall
    /\ pre = NewHypergraph
    /\ ret = <<>>
    /\ steps = 0

\* hg.addNode(label)
AddNode(label) ==
    /\ steps < MaxOps
    /\ hg' = addNodeStr(hg, label)
    /\ call' = [NoCall EXCEPT !.op = "addNode", !.target = label]
    /\ pre' = hg
    /\ steps' = steps + 1
    /\ UNCHANGED <<pf, pc, ret>>

\* hg.addEdge(source, target, rel, weight); given = FALSE leaves the weight out.
AddEdge(source, target, rel, weight, given) ==
    /\ steps < MaxOps
    /\ hg' = addEdge(hg, source, target, rel, IF given THEN weight ELSE DefaultWeight)
    /\ call' = [op |-> "addEdge", source |-> source, target |-> target, rel |-> rel, weight |-> IF given THEN weight ELSE DefaultWeight, given |-> given]
    /\ pre' = hg
    /\ steps' = steps + 1
    /\ UNCHANGED <<pf, pc, ret>>

\* s.addEdge(t, weight) called on two Node objects of the graph.
DirectEdge(s, t, weight) ==
    /\ steps < MaxOps
    /\ hg' = NodeAddEdge(hg, s, t, weight, NoRel)
    /\ call' = [NoCall EXCEPT !.op = "Node.addEdge", !.source = <<s>>, !.target = <<t>>, !.weight = weight, !.given = TRUE]
    /\ pre' = hg
    /\ steps' = steps + 1
    /\ UNCHANGED <<pf, pc, ret>>

Next ==
    \/ \E label \in NodeLabels : AddNode(label)
    \/ \E source \in SourceLists, target \in TargetLabels, rel \in GivenRels, weight \in GivenWeights, given \in BOOLEAN : AddEdge(source, target, rel, weight, given)
    \/ \E s \in 1..Len(hg.nodes), t \in 1..Len(hg.nodes), weight \in GivenWeights : DirectEdge(s, t, weight)

Spec == Init /\ [][Next]_vars

(***************************************************************************)
(* What an operation added: the edges of node n that the last operation    *)
(* appended to its lists (all of them when the node itself is new).        *)
(***************************************************************************)
NewFullEdges(n) == IF n <= Len(pre.nodes) THEN SubSeq(hg.nodes[n].full_edges, Len(pre.nodes[n].full_edges) + 1, Len(hg.nodes[n].full_edges)) ELSE hg.nodes[n].full_edges

NewDottedEdges(n) == IF n <= Len(pre.nodes) THEN SubSeq(hg.nodes[n].dotted_edges, Len(pre.nodes[n].dotted_edges) + 1, Len(hg.nodes[n].dotted_edges)) ELSE hg.nodes[n].dotted_edges

NewEdges(n) == NewFullEdges(n) \o NewDottedEdges(n)

AllEdges(n) == hg.nodes[n].full_edges \o hg.nodes[n].dotted_edges

SeqCount(s, x) == Cardinality({i \in 1..Len(s) : s[i] = x})

\* The nodes the labels of the last addEdge call name.
CallSources == [i \in 1..Len(call.source) |-> getNode(hg, call.source[i])]

CallTarget == getNode(hg, call.target)

\* The node the edges of the last addEdge call were pointed at: the Compound
\* node the call created, or else the node its target label names.
CallPromoted == Len(hg.compnd_nodes) > Len(pre.compnd_nodes)

CallResolvedTarget == IF CallPromoted THEN hg.compnd_nodes[Len(hg.compnd_nodes)] ELSE CallTarget

(***************************************************************************)
(* C5: after any sequence of addNode and addEdge calls with string labels, *)
(* no two nodes of the graph (Simple or Compound) share a label.           *)
(* The code renames a colliding node to 'N<lastID>' without checking that  *)
(* this label is free: addNode("N1"); addNode("N1") leaves two nodes "N1". *)
(***************************************************************************)
C5_UniqueLabels ==
    \A i, j \in 1..Len(getNodes(hg)) : i # j => hg.nodes[getNodes(hg)[i]].label # hg.nodes[getNodes(hg)[j]].label

(***************************************************************************)
(* C6: addEdge([A,B], C, rel) on a fresh graph.  A call with two different *)
(* source labels and a third label as target, first on the graph.          *)
(***************************************************************************)
C6_Case ==
    /\ call.op = "addEdge"
    /\ pre = NewHypergraph
    /\ Len(call.source) = 2
    /\ call.source[1] # call.source[2]
    /\ call.target \notin Range(call.source)

\* C6 as stated: one new Compound node with dependencies [A,B], one dotted
\* edge Compound->C of weight 0, and two full edges A->Compound, B->Compound.
C6_Original ==
    C6_Case =>
        /\ Len(hg.compnd_nodes) = 1
        /\ LET z == hg.compnd_nodes[1]
           IN  /\ hg.nodes[z].dependencies = CallSources
               /\ hg.nodes[z].full_edges = <<>>
               /\ Len(hg.nodes[z].dotted_edges) = 1
               /\ hg.nodes[z].dotted_edges[1].target = CallTarget
               /\ hg.nodes[z].dotted_edges[1].weight = 0
               /\ \A i \in 1..2 :
                    /\ hg.nodes[CallSources[i]].dotted_edges = <<>>
                    /\ Len(hg.nodes[CallSources[i]].full_edges) = 1
                    /\ hg.nodes[CallSources[i]].full_edges[1].target = z

\* C6 as amended: one new Compound node with dependencies [A,B], one full
\* edge Compound->C that carries the caller's weight (1.0 by default) and
\* relationship, and two dotted edges A->Compound, B->Compound of weight 0
\* with the 'to' relationship; three Simple nodes A, B, C and no other edge.
C6_CompoundPromotion ==
    C6_Case =>
        /\ Len(hg.compnd_nodes) = 1
        /\ Len(hg.simple_nodes) = 3
        /\ LET z == hg.compnd_nodes[1]
           IN  /\ hg.nodes[z].dependencies = CallSources
               /\ hg.nodes[z].dotted_edges = <<>>
               /\ hg.nodes[z].full_edges = <<Edge(z, CallTarget, call.weight, IF call.rel = NoRel THEN equiv_rel ELSE call.rel)>>
               /\ isSimple(hg.nodes[CallTarget])
               /\ AllEdges(CallTarget) = <<>>
               /\ \A i \in 1..2 :
                    /\ isSimple(hg.nodes[CallSources[i]])
                    /\ hg.nodes[CallSources[i]].full_edges = <<>>
                    /\ hg.nodes[CallSources[i]].dotted_edges = <<Edge(CallSources[i], z, 0, dotted_rel)>>

C6_Witness ==
    /\ C6_Case
    /\ call.source = <<LabelA, LabelB>>
    /\ call.target = LabelC
    /\ call.rel = plus_rel
    /\ Len(hg.compnd_nodes) = 1

(***************************************************************************)
(* C7: edges whose target is a Compound node.                              *)
(***************************************************************************)
IsPassThrough(e) == e.weight = 0 /\ e.rel = dotted_rel

\* C7 as stated: in every graph state every edge whose target is a Compound
\* node has weight 0 and the 'to' relationship, however it was created.
C7_Original ==
    \A n \in 1..Len(hg.nodes) : \A i \in 1..Len(AllEdges(n)) :
        ~isSimple(hg.nodes[AllEdges(n)[i].target]) => IsPassThrough(AllEdges(n)[i])

\* C7 as amended: every edge that Hypergraph.addEdge creates to a Compound
\* target has weight 0 and the 'to' relationship, whatever weight and
\* relationship the caller supplied; Node.addEdge stores weight and
\* relationship as given.
C7_AddEdgeForcesPassThrough ==
    /\ call.op = "addEdge" =>
           \A n \in 1..Len(hg.nodes) : \A i \in 1..Len(NewEdges(n)) :
               ~isSimple(hg.nodes[NewEdges(n)[i].target]) => IsPassThrough(NewEdges(n)[i])
    /\ call.op = "Node.addEdge" =>
           NewEdges(call.source[1]) = <<Edge(call.source[1], call.target[1], call.weight, NoRel)>>

C7_Witness ==
    /\ call.op = "addEdge"
    /\ call.given /\ call.weight = 3 /\ call.rel = plus_rel
    /\ \E n \in 1..Len(hg.nodes) : \E i \in 1..Len(NewDottedEdges(n)) :
           ~isSimple(hg.nodes[NewDottedEdges(n)[i].target])

(***************************************************************************)
(* C8: the weight of the edges Hypergraph.addEdge adds.  Without a weight  *)
(* argument a single-source edge to a Simple target has weight 1.0; when   *)
(* the target resolves to a Compound node (it was one, or the call created *)
(* one) every edge added from the sources to it has weight 0 regardless of *)
(* the weight passed.                                                      *)
(***************************************************************************)
C8_EdgeWeights ==
    call.op = "addEdge" =>
        /\ (Len(call.source) = 1 /\ ~call.given /\ isSimple(hg.nodes[CallTarget])) =>
               /\ Len(NewFullEdges(CallSources[1])) = 1
               /\ NewFullEdges(CallSources[1])[1].target = CallTarget
               /\ NewFullEdges(CallSources[1])[1].weight = 1
        /\ ~isSimple(hg.nodes[CallResolvedTarget]) =>
               \A k \in 1..Len(call.source) :
                   LET new == NewDottedEdges(CallSources[k])
                   IN  /\ Len(new) = SeqCount(CallSources, CallSources[k])
                       /\ \A i \in 1..Len(new) : new[i].target = CallResolvedTarget /\ new[i].weight = 0

\* An explicit weight 3 handed to addEdge for a target that already was a
\* Compound node, in a graph that also holds a default-weight full edge.
C8_Witness ==
    /\ call.op = "addEdge"
    /\ call.given /\ call.weight = 3
    /\ Len(call.source) = 1
    /\ ~CallPromoted
    /\ ~isSimple(hg.nodes[CallTarget])
    /\ Len(NewDottedEdges(CallSources[1])) = 1
    /\ \E n \in 1..Len(hg.nodes) : \E i \in 1..Len(hg.nodes[n].full_edges) : hg.nodes[n].full_edges[i].weight = 1

(***************************************************************************)
(* The closure search, stepped one pass of its loop at a time, on graphs   *)
(* built by scripts of Hypergraph.addEdge calls with Simple targets (each  *)
(* Compound node then has one dotted edge per dependency, as the search    *)
(* assumes).                                                               *)
(***************************************************************************)
MaxCalls == 2

LabelD == <<"D">>

LabelE == <<"E">>

LabelF == <<"F">>

LabelS == <<"S">>

LabelT == <<"T">>

LabelStep == <<"s", "t", "e", "p">>

LabelAPlus == <<"A", "+">>

LabelA0 == <<"A", "0">>

EdgeCall(source, target, rel, weight) == [source |-> source, target |-> target, rel |-> rel, weight |-> weight]

\* The graph after the addEdge calls of a script.
RECURSIVE Build(_, _)
Build(h, calls) ==
    IF calls = <<>> THEN h
    ELSE Build(addEdge(h, Head(calls).source, Head(calls).target, Head(calls).rel, Head(calls).weight), Tail(calls))

\* Small graphs: every script of at most MaxCalls calls over these calls.
SmallCalls == {EdgeCall(src, tgt, plus_rel, w) : src \in {<<LabelA>>, <<LabelB>>, <<LabelA, LabelB>>}, tgt \in {LabelB, LabelC}, w \in {0, 1, 2}}

SmallScripts == UNION {[1..k -> SmallCalls] : k \in 1..MaxCalls}

\* An AND-join over three dependencies reached at costs from {3, 5, 7}.
AndJoinScripts == {<<EdgeCall(<<LabelS>>, LabelA, NoRel, wa), EdgeCall(<<LabelS>>, LabelB, NoRel, wb), EdgeCall(<<LabelS>>, LabelC, NoRel, wc), EdgeCall(<<LabelA, LabelB, LabelC>>, LabelT, plus_rel, 1)>> : wa \in {3, 5, 7}, wb \in {3, 5, 7}, wc \in {3, 5, 7}}

\* src/demos/basic.py
BasicScript == <<EdgeCall(<<LabelA, LabelB>>, LabelC, plus_rel, DefaultWeight), EdgeCall(<<LabelA>>, LabelD, negation_rel, DefaultWeight), EdgeCall(<<LabelB>>, LabelE, negation_rel, DefaultWeight), EdgeCall(<<LabelD, LabelE>>, LabelF, plus_rel, DefaultWeight), EdgeCall(<<LabelF>>, LabelC, negation_rel, DefaultWeight)>>

\* src/demos/cycle.py
CycleScript == <<EdgeCall(<<LabelA, LabelStep>>, LabelAPlus, plus_rel, DefaultWeight), EdgeCall(<<LabelAPlus>>, LabelA, equal_rel, DefaultWeight), EdgeCall(<<LabelA0>>, LabelA, equal_rel, DefaultWeight)>>

\* An edge declared onto the Compound node that an earlier call created:
\* hg.addEdge(['A', 'B'], 'C', rel); hg.addEdge('A', 'AB', rel).
CompoundTargetScript == <<EdgeCall(<<LabelA, LabelB>>, LabelC, plus_rel, DefaultWeight), EdgeCall(<<LabelA>>, LabelAB, plus_rel, DefaultWeight)>>

\* A Compound node among the sources of a later hyperedge:
\* hg.addEdge(['A', 'B'], 'C', rel); hg.addEdge(['AB', 'C'], 'D', rel).
NestedScript == <<EdgeCall(<<LabelA, LabelB>>, LabelC, plus_rel, DefaultWeight), EdgeCall(<<LabelAB, LabelC>>, LabelD, plus_rel, DefaultWeight)>>

\* The same node listed twice as a source: hg.addEdge(['A', 'A'], 'C', rel).
RepeatedDepScript == <<EdgeCall(<<LabelA, LabelA>>, LabelC, plus_rel, DefaultWeight)>>

ClosureScripts == SmallScripts \cup AndJoinScripts \cup {BasicScript, CycleScript, CompoundTargetScript, NestedScript, RepeatedDepScript}

\* The source lists handed to solve.
ClosureSources == {<<LabelA>>, <<LabelB>>, <<LabelA, LabelB>>, <<LabelB, LabelA>>, <<LabelC, LabelA>>, <<LabelS>>, <<LabelA, LabelE>>, <<LabelA0, LabelStep>>, <<LabelAB>>}

InitClosure ==
    /\ hg \in {Build(NewHypergraph, script) : script \in ClosureScripts}
    /\ pf = NoPathfinder
    /\ pc = "built"
    /\ call = NoCall
    /\ pre = NewHypergraph
    /\ ret = <<>>
    /\ steps = 0

\* hg.solve(source) up to the loop of findPaths.
SolveStart(source) ==
    /\ pc = "built"
    /\ NoNode \notin Range(SourceNodes(hg, source))
    /\ LET c == findPathsStart(hg, NoPathfinder, SourceNodes(hg, source))
       IN  /\ hg' = c.hg
           /\ pf' = c.pf
    /\ pc' = "search"
    /\ call' = [NoCall EXCEPT !.op = "solve", !.source = source]
    /\ pre' = hg
    /\ UNCHANGED <<ret, steps>>

\* hg.solve(source) with a label that names no node: getNode returns None
\* and makeSourceSet fails on it (None has no isSimple).
SolveUnknown(source) ==
    /\ pc = "built"
    /\ NoNode \in Range(SourceNodes(hg, source))
    /\ pc' = "error"
    /\ call' = [NoCall EXCEPT !.op = "solve", !.source = source]
    /\ ret' = <<"AttributeError">>
    /\ pre' = hg
    /\ UNCHANGED <<hg, pf, steps>>

\* One pass of the while loop.
Settle ==
    /\ pc = "search"
    /\ pf.p_queue # <<>>
    /\ pf' = SettleStep(hg, pf)
    /\ pc' = IF pf'.error # "none" THEN "error" ELSE "search"
    /\ steps' = steps + 1
    /\ UNCHANGED <<hg, call, pre, ret>>

\* The queue is empty: the Pathfinder is returned and solve caches it.
SolveReturn ==
    /\ pc = "search"
    /\ pf.p_queue = <<>>
    /\ hg' = [hg EXCEPT !.pathfinders = Append(@, pf)]
    /\ pc' = "done"
    /\ UNCHANGED <<pf, call, pre, ret, steps>>

\* pf.getPath(node)
GetPath(node) ==
    /\ pc = "done"
    /\ ret' = getPath(hg, pf, node)
    /\ call' = [NoCall EXCEPT !.op = "getPath", !.target = LabelOf(hg, node)]
    /\ UNCHANGED <<hg, pf, pc, pre, steps>>

NextClosure ==
    \/ \E source \in ClosureSources : SolveStart(source)
    \/ \E source \in ClosureSources : SolveUnknown(source)
    \/ Settle
    \/ SolveReturn
    \/ \E node \in Range(getNodes(hg)) : GetPath(node)

SpecClosure == InitClosure /\ [][NextClosure]_vars

\* findPaths runs its while loop to the end without interruption, and solve
\* returns once the loop is left.
SpecClosureLive == InitClosure /\ [][NextClosure]_vars /\ WF_vars(Settle) /\ WF_vars(SolveReturn)

(***************************************************************************)
(* The reference the closure is compared with: hyperpaths from the source  *)
(* set, by node (not by label).  The nodes of the source set and the       *)
(* search's own source node are the roots.                                 *)
(***************************************************************************)
Roots == Range(pf.source_set) \cup {pf.source}

AllFullEdges(h) == UNION {Range(h.nodes[m].full_edges) : m \in 1..Len(h.nodes)}

\* Nodes with a hyperpath from the roots: the least set that holds the
\* roots, every Simple node with a full edge from a member, and every
\* Compound node all of whose dependencies are members.
HyperStep(h, R) ==
    R \cup {n \in 1..Len(h.nodes) :
              IF isSimple(h.nodes[n])
              THEN \E e \in AllFullEdges(h) : e.target = n /\ e.source \in R
              ELSE Range(h.nodes[n].dependencies) \subseteq R}

RECURSIVE HyperClosure(_, _)
HyperClosure(h, R) == IF HyperStep(h, R) = R THEN R ELSE HyperClosure(h, HyperStep(h, R))

HasHyperpath(n) == n \in HyperClosure(hg, Roots)

\* The minimum hyperpath cost: roots cost 0, a Simple node costs the least
\* weight + cost of source over the full edges into it, a Compound node the
\* maximum of its dependencies' costs; the greatest solution, reached by
\* iterating from inf.
CostStep(h, c) ==
    [n \in 1..Len(h.nodes) |->
        IF n \in Roots THEN 0
        ELSE IF isSimple(h.nodes[n])
        THEN MinOf({AddInf(e.weight, c[e.source]) : e \in {f \in AllFullEdges(h) : f.target = n}} \cup {Inf})
        ELSE MaxOf({c[d] : d \in Range(h.nodes[n].dependencies)})]

RECURSIVE CostFix(_, _)
CostFix(h, c) == IF CostStep(h, c) = c THEN c ELSE CostFix(h, CostStep(h, c))

MinCost == CostFix(hg, [n \in 1..Len(hg.nodes) |-> Inf])

CompoundNodesOf(h) == Range(h.compnd_nodes)

DepDists(z) == [i \in 1..Len(hg.nodes[z].dependencies) |-> pf.DIST[LabelOf(hg, hg.nodes[z].dependencies[i])]]

C2_AndJoinMax ==
    pc \in {"search", "done"} =>
        \A z \in CompoundNodesOf(hg) :
            pf.REACH[LabelOf(hg, z)] = 0 =>
                /\ pf.DIST[LabelOf(hg, z)] = MaxOf(Range(DepDists(z)))
                /\ DepDists(z) = <<3, 7, 5>> => pf.DIST[LabelOf(hg, z)] = 7

C2_Witness ==
    /\ pc = "search"
    /\ \E z \in CompoundNodesOf(hg) :
           /\ pf.REACH[LabelOf(hg, z)] = 0
           /\ DepDists(z) = <<3, 7, 5>>
           /\ pf.DIST[LabelOf(hg, z)] = 7

(***************************************************************************)
(* C3: after a closure, a node without a hyperpath from the source set     *)
(* keeps REACH # 0 and DIST = inf and getPath returns None for it; a node  *)
(* with a hyperpath ends with REACH = 0 and a finite DIST.                 *)
(***************************************************************************)
C3_Reachability ==
    pc = "done" =>
        \A n \in Range(getNodes(hg)) :
            IF HasHyperpath(n)
            THEN pf.REACH[LabelOf(hg, n)] = 0 /\ pf.DIST[LabelOf(hg, n)] < Inf /\ getPath(hg, pf, n) # NoPath
            ELSE pf.REACH[LabelOf(hg, n)] # 0 /\ pf.DIST[LabelOf(hg, n)] = Inf /\ getPath(hg, pf, n) = NoPath

(***************************************************************************)
(* Evaluation: sequences of hg.simulate calls on the graphs of the demos.  *)
(* ret is the history of the calls: the target, the inputs, the value      *)
(* returned, the exception raised and the step trace left in the           *)
(* Pathfinder that served the call.                                        *)
(***************************************************************************)
MaxSims == 2

\* Values of the first and of the second input of basic.py.
FirstValues == {-7, 3}

SecondValues == {-7, 7}

\* The input mappings: the inputs of basic.py in both orders of the dict,
\* the alternate input set, a lone input, and the inputs of cycle.py.
SimInputs ==
    {<<Item(LabelA, a), Item(LabelB, b)>> : a \in FirstValues, b \in SecondValues}
    \cup {<<Item(LabelB, b), Item(LabelA, a)>> : a \in FirstValues, b \in SecondValues}
    \cup {<<Item(LabelA, a), Item(LabelE, e)>> : a \in FirstValues, e \in SecondValues}
    \cup {<<Item(LabelA, 12345)>>, <<Item(LabelA0, 0), Item(LabelStep, 1)>>}

SimTargets == {LabelC, LabelAPlus}

LabelBA == <<"B", "A">>

LabelZ == <<"Z">>

\* Two joins over the same nodes listed in opposite orders, under the
\* relationship that returns its first input.
OrderScript == <<EdgeCall(<<LabelA, LabelB>>, LabelC, equal_rel, DefaultWeight), EdgeCall(<<LabelB, LabelA>>, LabelD, equal_rel, DefaultWeight)>>

\* hg.addNode('A'); hg.addNode('C'); hg.getNode('A').addEdge(hg.getNode('C')):
\* the Edge constructor supplies the relationship.
HandWired == NodeAddEdge(addNodeStr(addNodeStr(NewHypergraph, LabelA), LabelC), 1, 2, DefaultWeight, NoRel)

SimGraphs == {Build(NewHypergraph, BasicScript), Build(NewHypergraph, CycleScript), Build(NewHypergraph, OrderScript), HandWired}

\* The mappings handed to setNodeValues: Z names no node.
SetInputs == {<<Item(LabelA, 5)>>, <<Item(LabelZ, 1), Item(LabelA, 9)>>}

InitSim ==
    /\ hg \in SimGraphs
    /\ pf = NoPathfinder
    /\ pc = "ready"
    /\ call = NoCall
    /\ pre = NewHypergraph
    /\ ret = <<>>
    /\ steps = 0

\* hg.simulate(target, input_values), or hg(target, input_values).
Simulate(target, inputs) ==
    /\ pc = "ready"
    /\ Len(ret) < MaxSims
    /\ \E r \in {simulate(hg, target, inputs)} :
           \E served \in {IF r.idx = 0 THEN NoPathfinder ELSE r.hg.pathfinders[r.idx]} :
               /\ hg' = r.hg
               /\ pf' = served
               /\ ret' = Append(ret, [target |-> target, inputs |-> inputs, val |-> r.val, err |-> r.err, sim_str |-> served.sim_str])
    /\ call' = [NoCall EXCEPT !.op = "simulate", !.target = target, !.inputs = inputs]
    /\ pre' = hg
    /\ UNCHANGED <<pc, steps>>

\* hg.setNodeValues(values) with a dict.
SetNodeValues(inputs) ==
    /\ pc = "ready"
    /\ Len(ret) < MaxSims
    /\ hg' = setNodeValues(hg, inputs)
    /\ ret' = Append(ret, [target |-> <<>>, inputs |-> inputs, val |-> NoValue, err |-> "none", sim_str |-> <<>>])
    /\ call' = [NoCall EXCEPT !.op = "setNodeValues", !.inputs = inputs]
    /\ pre' = hg
    /\ UNCHANGED <<pf, pc, steps>>

NextSim ==
    \/ \E target \in SimTargets, inputs \in SimInputs : Simulate(target, inputs)
    \/ \E inputs \in SetInputs : SetNodeValues(inputs)

SpecSim == InitSim /\ [][NextSim]_vars

\* The graph is the one of basic.py (the only one with a node F).
OnBasicGraph == getNode(hg, LabelF) # NoNode

(***************************************************************************)
(* C4: on the graph of basic.py, simulate(C, {A: a, B: b}) returns a + b   *)
(* and simulate(C, {A: a, E: e}) returns a - e, which is a + b for         *)
(* e = -b; the inputs A=3, B=7 and A=3, E=-7 both give 10.                 *)
(***************************************************************************)
C4_BasicDemo ==
    OnBasicGraph =>
        \A k \in 1..Len(ret) :
            LET c == ret[k]
            IN  c.target = LabelC /\ Len(c.inputs) = 2 /\ c.inputs[1].label = LabelA =>
                    /\ c.err = "none"
                    /\ c.inputs[2].label = LabelB => c.val = <<c.inputs[1].value + c.inputs[2].value>>
                    /\ c.inputs[2].label = LabelE => c.val = <<c.inputs[1].value - c.inputs[2].value>>

\* C was asked for with A=3, B=7 and then with A=3, E=-7, and both calls
\* returned 10.
C4_Witness ==
    /\ OnBasicGraph
    /\ Len(ret) = 2
    /\ ret[1].target = LabelC /\ ret[1].inputs = <<Item(LabelA, 3), Item(LabelB, 7)>> /\ ret[1].val = <<10>>
    /\ ret[2].target = LabelC /\ ret[2].inputs = <<Item(LabelA, 3), Item(LabelE, -7)>> /\ ret[2].val = <<10>>

(***************************************************************************)
(* C9: two consecutive hg.simulate calls with the same target and the same *)
(* input mapping return the same value (or raise the same exception) and   *)
(* leave the same step trace.                                              *)
(***************************************************************************)
C9_Idempotent ==
    \A k \in 2..Len(ret) :
        ret[k].target = ret[k - 1].target /\ ret[k].inputs = ret[k - 1].inputs =>
            /\ ret[k].val = ret[k - 1].val
            /\ ret[k].err = ret[k - 1].err
            /\ ret[k].sim_str = ret[k - 1].sim_str

\* The same call was made twice, returned a value and left a trace of more
\* than one step.
C9_Witness ==
    /\ Len(ret) = 2
    /\ ret[2].target = ret[1].target /\ ret[2].inputs = ret[1].inputs
    /\ ret[2].err = "none" /\ ret[2].val # NoValue
    /\ Len(ret[2].sim_str) > 1

(***************************************************************************)
(* C10: a hg.simulate call creates and caches a new Pathfinder exactly     *)
(* when no cached Pathfinder has the set of source nodes the input labels  *)
(* denote; when one has, the call leaves the list of pathfinders and the   *)
(* node lists as they were.                                                *)
(***************************************************************************)
CachedSourceSet(h, labels) ==
    \E i \in 1..Len(h.pathfinders) : LabelsOf(h, h.pathfinders[i].source_set) = Range(labels)

C10_Original ==
    call.op = "simulate" /\ NoNode \notin Range(SourceNodes(pre, InputLabels(call.inputs))) =>
        IF CachedSourceSet(pre, InputLabels(call.inputs))
        THEN /\ Len(hg.pathfinders) = Len(pre.pathfinders)
             /\ hg.simple_nodes = pre.simple_nodes
             /\ hg.compnd_nodes = pre.compnd_nodes
        ELSE Len(hg.pathfinders) = Len(pre.pathfinders) + 1

(***************************************************************************)
(* C11: when the target has no hyperpath from the input set, hg.simulate   *)
(* returns an explicit 'unreachable' result (None) and raises nothing.     *)
(***************************************************************************)
LastCall == ret[Len(ret)]

C11_Original ==
    call.op = "simulate" /\ pf # NoPathfinder /\ getNode(hg, call.target) # NoNode /\ ~HasHyperpath(getNode(hg, call.target)) =>
        LastCall.err = "none" /\ LastCall.val = NoValue

(***************************************************************************)
(* C12: setNodeValues with a key that names no node of the graph reports   *)
(* a lookup error.                                                         *)
(***************************************************************************)
C12_Original ==
    call.op = "setNodeValues" /\ (\E i \in 1..Len(call.inputs) : getNode(pre, call.inputs[i].label) = NoNode) =>
        LastCall.err # "none"

(***************************************************************************)
(* C13: hg.simulate with an input label that names no node fails before    *)
(* any state changes: no value is set, no node is added, no closure is     *)
(* computed or cached.                                                     *)
(***************************************************************************)
UnknownInput(h, inputs) == \E i \in 1..Len(inputs) : getNode(h, inputs[i].label) = NoNode

C13_UnknownInputFailsFirst ==
    call.op = "simulate" /\ UnknownInput(pre, call.inputs) =>
        LastCall.err = "Exception" /\ hg = pre

\* After a served call, a call whose mapping names one node of the graph
\* and one label that is no node was refused.
C13_Witness ==
    /\ Len(ret) = 2
    /\ ret[1].err = "none" /\ ret[1].val # NoValue
    /\ call.op = "simulate"
    /\ UnknownInput(pre, call.inputs)
    /\ \E i \in 1..Len(call.inputs) : getNode(pre, call.inputs[i].label) # NoNode
    /\ Len(pre.pathfinders) = 1
    /\ LastCall.err = "Exception"

(***************************************************************************)
(* C14: the closure search terminates: from every state of the while loop  *)
(* of findPaths the priority queue eventually becomes empty and solve      *)
(* returns, also on graphs with directed cycles and zero-weight edges.     *)
(***************************************************************************)
C14_SearchTerminates == (pc = "search") ~> (pc = "done" /\ pf.p_queue = <<>>)

(***************************************************************************)
(* C15: after a closure DIST does not decrease along predecessor chains:   *)
(* a settled Simple node other than the search source has a LAST edge      *)
(* whose source is at most as far as the node, and a settled Compound      *)
(* node is at least as far as each of its dependencies.                    *)
(***************************************************************************)
SettledSimple == {n \in Range(hg.simple_nodes) : pf.REACH[LabelOf(hg, n)] = 0 /\ LabelOf(hg, n) # LabelOf(hg, pf.source)}

SettledCompound == {z \in CompoundNodesOf(hg) : pf.REACH[LabelOf(hg, z)] = 0}

C15_DistMonotone ==
    pc = "done" =>
        /\ \A n \in SettledSimple :
               /\ pf.LAST[LabelOf(hg, n)] # NoEdge
               /\ pf.DIST[LabelOf(hg, pf.LAST[LabelOf(hg, n)].source)] <= pf.DIST[LabelOf(hg, n)]
        /\ \A z \in SettledCompound :
               \A i \in 1..Len(hg.nodes[z].dependencies) :
                   pf.DIST[LabelOf(hg, hg.nodes[z].dependencies[i])] <= pf.DIST[LabelOf(hg, z)]

\* A finished closure with a strict increase over a full edge and a Compound
\* node strictly farther than one of its dependencies.
C15_Witness ==
    /\ pc = "done"
    /\ \E n \in SettledSimple :
           pf.DIST[LabelOf(hg, pf.LAST[LabelOf(hg, n)].source)] < pf.DIST[LabelOf(hg, n)]
    /\ \E z \in SettledCompound :
           \E i \in 1..Len(hg.nodes[z].dependencies) :
               pf.DIST[LabelOf(hg, hg.nodes[z].dependencies[i])] < pf.DIST[LabelOf(hg, z)]

(***************************************************************************)
(* C16: addNode with a label that an existing node carries adds exactly    *)
(* one node, under a generated label different from the one asked for,     *)
(* and leaves every node that existed before as it was.                    *)
(* The generated label is 'N<lastID>', which is the label asked for when   *)
(* the caller's label has that form: addNode("N1"); addNode("N1").         *)
(***************************************************************************)
C16_Original ==
    (call.op = "addNode" /\ getNode(pre, call.target) # NoNode) =>
        /\ Len(getNodes(hg)) = Len(getNodes(pre)) + 1
        /\ Len(hg.nodes) = Len(pre.nodes) + 1
        /\ \A n \in 1..Len(pre.nodes) : hg.nodes[n] = pre.nodes[n]
        /\ hg.nodes[Len(hg.nodes)].label # call.target

(***************************************************************************)
(* C17: computing a closure leaves the graph as it was: the node lists     *)
(* are those of before the call (the synthetic source node is not kept)    *)
(* and every node that existed keeps its label, edge lists and value.      *)
(* makeSourceSet appends the source node to hg.simple_nodes for good.      *)
(***************************************************************************)
C17_Original ==
    (pc = "done" /\ call.op = "solve") =>
        /\ hg.simple_nodes = pre.simple_nodes
        /\ hg.compnd_nodes = pre.compnd_nodes
        /\ \A n \in 1..Len(pre.nodes) : hg.nodes[n] = pre.nodes[n]

(***************************************************************************)
(* C18: a Relationship created without a mapping, as the Edge constructor  *)
(* creates it when no rel is given, returns the first element of its       *)
(* input: a target whose predecessor edge carries such a relationship and  *)
(* leaves the one input node evaluates to the input's value.               *)
(* The constructor ends with self.mapping = mapping, so the mapping of     *)
(* such a relationship is None and calling it raises TypeError.            *)
(***************************************************************************)
C18_Original ==
    (/\ call.op = "simulate"
     /\ pf # NoPathfinder
     /\ Len(call.inputs) = 1
     /\ call.target \in DOMAIN pf.LAST
     /\ pf.LAST[call.target] # NoEdge
     /\ pf.LAST[call.target].rel = Relationship(RelLabel("equivalent"), "None")
     /\ LabelOf(hg, pf.LAST[call.target].source) = call.inputs[1].label) =>
        /\ LastCall.err = "none"
        /\ LastCall.val = <<call.inputs[1].value>>

(***************************************************************************)
(* C19: after a closure, getPath of every node n with REACH = 0 returns a  *)
(* sequence that ends in n and starts at the search source, in which each  *)
(* Simple node other than the source comes after the source of its LAST    *)
(* edge and each Compound node after all of its dependencies, and whose    *)
(* elements all have REACH = 0.                                            *)
(***************************************************************************)
WellFormedPath(path, n) ==
    /\ path # PathError
    /\ path # NoPath
    /\ path # <<>>
    /\ path[Len(path)] = n
    /\ path[1] = pf.source
    /\ \A i \in 1..Len(path) :
           /\ pf.REACH[LabelOf(hg, path[i])] = 0
           /\ IF LabelOf(hg, path[i]) = LabelOf(hg, pf.source) THEN TRUE
              ELSE IF isSimple(hg.nodes[path[i]])
              THEN \E j \in 1..(i - 1) : path[j] = pf.LAST[LabelOf(hg, path[i])].source
              ELSE \A d \in Range(hg.nodes[path[i]].dependencies) : \E j \in 1..(i - 1) : path[j] = d

C19_PathStructure ==
    pc = "done" =>
        \A n \in Range(getNodes(hg)) :
            pf.REACH[LabelOf(hg, n)] = 0 =>
                \A path \in {getPath(hg, pf, n)} : WellFormedPath(path, n)

(***************************************************************************)
(* C20: the value of an evaluated target is its predecessor edge's         *)
(* relationship applied to the values of the edge source's dependencies    *)
(* in the order addEdge listed them, or to the one-element list of the     *)
(* source's value when the source is Simple.  With the relationship that   *)
(* returns its first input, addEdge([A,B], C, rel) makes C the value of A  *)
(* whatever the order of the keys of the input mapping.                    *)
(***************************************************************************)
InputValue(inputs, label) == (CHOOSE i \in Range(inputs) : i.label = label).value

DepValues(z) == [i \in 1..Len(hg.nodes[z].dependencies) |-> hg.nodes[hg.nodes[z].dependencies[i]].value]

OnOrderGraph == getNode(hg, LabelBA) # NoNode

Evaluated ==
    /\ call.op = "simulate"
    /\ pf # NoPathfinder
    /\ LastCall.err = "none"
    /\ call.target \in DOMAIN pf.LAST
    /\ call.target \notin {call.inputs[i].label : i \in 1..Len(call.inputs)}

C20_DependencyOrder ==
    Evaluated =>
        /\ \A edge \in {pf.LAST[call.target]} :
               /\ edge # NoEdge
               /\ IF isSimple(hg.nodes[edge.source])
                  THEN Apply(edge.rel, <<hg.nodes[edge.source].value>>).val = LastCall.val
                  ELSE Apply(edge.rel, DepValues(edge.source)).val = LastCall.val
        /\ (OnOrderGraph /\ call.target = LabelC) => LastCall.val = <<InputValue(call.inputs, LabelA)>>

\* C over the join [A, B] was evaluated from a mapping that lists B first.
C20_Witness ==
    /\ Evaluated
    /\ OnOrderGraph
    /\ call.target = LabelC
    /\ call.inputs = <<Item(LabelB, 7), Item(LabelA, 3)>>
    /\ LastCall.val = <<3>>
    /\ ~isSimple(hg.nodes[pf.LAST[LabelC].source])

(***************************************************************************)
(* C21: every label an addEdge call names as a source or as its target     *)
(* resolves to a node that carries exactly that label: the node the graph  *)
(* already had for it, otherwise one newly created Simple node; no second  *)
(* node is created for a label the graph already has.                      *)
(***************************************************************************)
CallLabels == Range(call.source) \cup {call.target}

SimpleLabelled(h, label) == {i \in 1..Len(h.simple_nodes) : LabelOf(h, h.simple_nodes[i]) = label}

\* C21 as stated: the node a label resolves to is always a Simple node.
C21_Original ==
    call.op = "addEdge" =>
        \A l \in CallLabels :
            /\ getNode(hg, l) # NoNode
            /\ LabelOf(hg, getNode(hg, l)) = l
            /\ isSimple(hg.nodes[getNode(hg, l)])

\* C21 as amended: the node found is the first node of the graph with that
\* label, Simple or Compound; a label the graph lacked gets one new Simple
\* node, and the call creates no other Simple node.
C21_ResolveByLabel ==
    call.op = "addEdge" =>
        /\ \A l \in CallLabels :
               /\ getNode(hg, l) # NoNode
               /\ LabelOf(hg, getNode(hg, l)) = l
               /\ IF getNode(pre, l) # NoNode
                  THEN /\ getNode(hg, l) = getNode(pre, l)
                       /\ Cardinality(SimpleLabelled(hg, l)) = Cardinality(SimpleLabelled(pre, l))
                  ELSE /\ getNode(hg, l) > Len(pre.nodes)
                       /\ isSimple(hg.nodes[getNode(hg, l)])
                       /\ Cardinality(SimpleLabelled(hg, l)) = 1
        /\ Len(hg.simple_nodes) = Len(pre.simple_nodes) + Cardinality({l \in CallLabels : getNode(pre, l) = NoNode})

\* A second addEdge names the label of the Compound node the first one made
\* as its target, from a source the graph already had.
C21_Witness ==
    /\ call.op = "addEdge"
    /\ getNode(pre, call.target) # NoNode
    /\ ~isSimple(pre.nodes[getNode(pre, call.target)])
    /\ getNode(hg, call.target) = getNode(pre, call.target)
    /\ \E l \in Range(call.source) : getNode(pre, l) # NoNode

(***************************************************************************)
(* C24: during a closure search every node is put into the queue at most   *)
(* once and popped at most once, and the queue never holds two entries     *)
(* that target the same node.  A node is popped while its LAST is still    *)
(* None, it is queued while its REACH is 1, which the queueing turns to 0, *)
(* and no REACH ever goes up again.                                        *)
(***************************************************************************)
QueueTargets(p) == [i \in 1..Len(p.p_queue) |-> LabelOf(hg, p.p_queue[i].edge.target)]

OneEntryPerNode == pc = "search" => \A i, j \in 1..Len(pf.p_queue) : i # j => QueueTargets(pf)[i] # QueueTargets(pf)[j]

Popped == QueueTargets(pf)[MinQueuePos(pf.p_queue)]

Enqueued == Range(QueueTargets(pf')) \ Range(QueueTargets(pf))

PopStep == pc = "search" /\ pf' # pf /\ MinQueuePos(pf.p_queue) # 0

OncePerNode ==
    PopStep =>
        /\ pf.LAST[Popped] = NoEdge
        /\ pf'.LAST[Popped] # NoEdge
        /\ Popped \notin Range(QueueTargets(pf'))
        /\ \A l \in Enqueued : pf.REACH[l] = 1 /\ pf'.REACH[l] = 0 /\ pf.LAST[l] = NoEdge
        /\ \A l \in DOMAIN pf.REACH : pf'.REACH[l] <= pf.REACH[l]
        /\ \A l \in DOMAIN pf.LAST : pf.LAST[l] # NoEdge => pf'.LAST[l] = pf.LAST[l]

C24_OncePerNode == []OneEntryPerNode /\ [][OncePerNode]_vars

\* The search has popped a node that two scanned edges lead to.
C24_Witness ==
    /\ pc = "search"
    /\ steps >= 2
    /\ \E e, f \in AllFullEdges(hg) :
           /\ e # f
           /\ e.target = f.target
           /\ isSimple(hg.nodes[e.source]) /\ isSimple(hg.nodes[f.source])
           /\ pf.LAST[LabelOf(hg, e.source)] # NoEdge
           /\ pf.LAST[LabelOf(hg, f.source)] # NoEdge
           /\ pf.LAST[LabelOf(hg, e.target)] # NoEdge

(***************************************************************************)
(* C25: the costs of the entries the search pops never go down: the cost   *)
(* popped is at least the DIST of every node popped before, it becomes     *)
(* the DIST of the popped node, and the DIST of a node popped before       *)
(* stays as it was recorded.                                               *)
(***************************************************************************)
PoppedBefore == {l \in DOMAIN pf.LAST : pf.LAST[l] # NoEdge}

PoppedNow == {l \in DOMAIN pf.LAST : pf.LAST[l] = NoEdge /\ pf'.LAST[l] # NoEdge}

PopsNonDecreasing ==
    PopStep =>
        /\ Cardinality(PoppedNow) = 1
        /\ \A l \in PoppedNow :
               /\ \E i \in 1..Len(pf.p_queue) : QueueTargets(pf)[i] = l /\ pf.p_queue[i].D = pf'.DIST[l]
               /\ \A m \in PoppedBefore : pf.DIST[m] <= pf'.DIST[l] /\ pf'.DIST[m] = pf.DIST[m]

EntriesFor(label) == {i \in 1..Len(pf.p_queue) : QueueTargets(pf)[i] = label}

Candidate(edge) == AddInf(edge.weight, pf.DIST[LabelOf(hg, edge.source)])

C26_LazyDecreaseKey ==
    pc = "search" =>
        \A edge \in AllFullEdges(hg) :
            pf.REACH[LabelOf(hg, edge.target)] # 1 =>
                \A after \in {scan(hg, pf, edge)} :
                    /\ after.REACH = pf.REACH /\ after.DIST = pf.DIST /\ after.LAST = pf.LAST
                    /\ Len(after.p_queue) = Len(pf.p_queue)
                    /\ \A i \in 1..Len(pf.p_queue) :
                           IF i \in EntriesFor(LabelOf(hg, edge.target)) /\ Candidate(edge) < pf.p_queue[i].D
                           THEN after.p_queue[i] = [D |-> Candidate(edge), edge |-> edge]
                           ELSE after.p_queue[i] = pf.p_queue[i]

\* An edge offers the cost its target's queue entry already has, over
\* another edge; another edge leads to a node that has left the queue.
C26_Witness ==
    /\ pc = "search"
    /\ \E edge \in AllFullEdges(hg) :
           \E i \in EntriesFor(LabelOf(hg, edge.target)) :
               /\ pf.p_queue[i].D = Candidate(edge)
               /\ pf.p_queue[i].edge # edge
               /\ Candidate(edge) < Inf
    /\ \E edge \in AllFullEdges(hg) :
           /\ pf.REACH[LabelOf(hg, edge.target)] = 0
           /\ EntriesFor(LabelOf(hg, edge.target)) = {}

(***************************************************************************)
(* C27: on a graph that addEdge built with Simple targets, REACH of a      *)
(* Compound node is, throughout the search, the number of its              *)
(* dependencies (with multiplicity) that are not settled yet, and never    *)
(* negative; the node gets a DIST and its full edges are scanned only      *)
(* once all its dependencies are settled.                                  *)
(* The search counts a Compound node down over the dotted edges of popped  *)
(* nodes only, and only Simple nodes are popped.                           *)
(***************************************************************************)
SeqCountIn(s, x) == Cardinality({i \in 1..Len(s) : s[i] = x})

DottedInto(h, n, z) == Cardinality({i \in 1..Len(h.nodes[n].dotted_edges) : h.nodes[n].dotted_edges[i].target = z})

\* Every dotted edge was made by the addEdge call that made its target.
SimpleTargetsOnly == \A z \in CompoundNodesOf(hg) : \A n \in 1..Len(hg.nodes) : DottedInto(hg, n, z) = SeqCountIn(hg.nodes[z].dependencies, n)

IsSettled(n) == IF isSimple(hg.nodes[n]) THEN pf.LAST[LabelOf(hg, n)] # NoEdge ELSE pf.REACH[LabelOf(hg, n)] = 0

Unsettled(z) == {i \in 1..Len(hg.nodes[z].dependencies) : ~IsSettled(hg.nodes[z].dependencies[i])}

WasScanned(edge) ==
    \/ \E i \in 1..Len(pf.p_queue) : pf.p_queue[i].edge = edge
    \/ pf.LAST[LabelOf(hg, edge.target)] = edge

C27_Original ==
    (pc \in {"search", "done"} /\ SimpleTargetsOnly) =>
        \A z \in CompoundNodesOf(hg) :
            /\ pf.REACH[LabelOf(hg, z)] = Cardinality(Unsettled(z))
            /\ pf.REACH[LabelOf(hg, z)] >= 0
            /\ (pf.DIST[LabelOf(hg, z)] < Inf \/ \E edge \in Range(hg.nodes[z].full_edges) : WasScanned(edge)) => Unsettled(z) = {}

(***************************************************************************)
(* C28: after a closure from the source set S every node of S has REACH 0  *)
(* and DIST 0, whatever edges lead to it.                                  *)
(* The edge from the source node to a Compound node of S is a dotted edge, *)
(* which only counts the Compound node down by one.                        *)
(***************************************************************************)
C28_SourcesAtZero ==
    pc = "done" =>
        \A i \in 1..Len(pf.source_set) :
            /\ pf.REACH[LabelOf(hg, pf.source_set[i])] = 0
            /\ pf.DIST[LabelOf(hg, pf.source_set[i])] = 0

(***************************************************************************)
(* C29: a source node is synthesised only for a source set of more than    *)
(* one node; a single node of S is itself the root of the search, with     *)
(* REACH 0 and DIST 0 from the start, and the graph gets no new node.      *)
(* configureSource tests len(source)==0, so every non-empty source set     *)
(* gets a synthetic source node.                                           *)
(***************************************************************************)
C29_Original ==
    (pc \in {"search", "done"} /\ call.op \in {"solve", "getPath"} /\ Len(pf.source_set) = 1) =>
        /\ pf.source = pf.source_set[1]
        /\ Len(hg.nodes) = Len(pre.nodes)
        /\ hg.simple_nodes = pre.simple_nodes
        /\ pf.REACH[LabelOf(hg, pf.source_set[1])] = 0

(***************************************************************************)
(* C30: the closure does not depend on the weights stored on dotted        *)
(* edges: the graph whose dotted edges all carry weight 20 (as B->AB and   *)
(* B->BC do in traversing_test.py) gives, from the same source set, the    *)
(* same REACH, DIST and LAST as the graph itself.                          *)
(***************************************************************************)
TestDottedWeight == 20

WithWeight(edges, w) == [i \in 1..Len(edges) |-> [edges[i] EXCEPT !.weight = w]]

DottedWeights(h, w) == [h EXCEPT !.nodes = [n \in 1..Len(h.nodes) |-> [h.nodes[n] EXCEPT !.dotted_edges = WithWeight(h.nodes[n].dotted_edges, w)]]]

C30_DottedWeightsIgnored ==
    pc = "done" =>
        \A alt \in {findPaths(DottedWeights(pre, TestDottedWeight), NoPathfinder, pf.source_set)} :
            /\ alt.pf.error = "none"
            /\ alt.pf.DIST = pf.DIST
            /\ alt.pf.LAST = pf.LAST
            /\ alt.pf.REACH = pf.REACH

\* A finished closure that reached a node over a Compound node whose
\* dotted edges carry weight 0 in the graph.
C30_Witness ==
    /\ pc = "done"
    /\ \E z \in CompoundNodesOf(hg) :
           /\ pf.REACH[LabelOf(hg, z)] = 0
           /\ pf.DIST[LabelOf(hg, z)] > 0
           /\ pf.DIST[LabelOf(hg, z)] < Inf
           /\ \E edge \in Range(hg.nodes[z].full_edges) : pf.LAST[LabelOf(hg, edge.target)] = edge
           /\ \A d \in Range(hg.nodes[z].dependencies) : \E i \in 1..Len(hg.nodes[d].dotted_edges) : hg.nodes[d].dotted_edges[i].target = z /\ hg.nodes[d].dotted_edges[i].weight = 0

(***************************************************************************)
(* C31: hg.simulate changes the stored value of the supplied input nodes   *)
(* and of the non-input nodes on the hyperpath to the target only.  After  *)
(* a call that returned, every input holds its supplied value, every       *)
(* non-input Simple node on the path holds its predecessor edge's          *)
(* relationship applied to the predecessors' stored values, the target's   *)
(* stored value is the returned value, and every other node has the value  *)
(* it had before the call.  A call that raised changed no node off the     *)
(* path either.                                                            *)
(***************************************************************************)
InputNodes == Range(SourceNodes(hg, InputLabels(call.inputs)))

\* One step back from the nodes of S: the sources of the predecessor edges
\* of the non-input Simple nodes, the dependencies of the Compound nodes.
PathStep(S) ==
    S \cup {pf.LAST[LabelOf(hg, n)].source : n \in {m \in S \ InputNodes : isSimple(hg.nodes[m]) /\ LabelOf(hg, m) \in DOMAIN pf.LAST /\ pf.LAST[LabelOf(hg, m)] # NoEdge}}
      \cup UNION {Range(hg.nodes[z].dependencies) : z \in {m \in S : ~isSimple(hg.nodes[m])}}

RECURSIVE PathClosure(_)
PathClosure(S) == IF PathStep(S) = S THEN S ELSE PathClosure(PathStep(S))

\* The nodes simulationHelper visits from the target.
SimPath == PathClosure({getNode(hg, call.target)} \ {NoNode})

PredValues(edge) == IF isSimple(hg.nodes[edge.source]) THEN <<hg.nodes[edge.source].value>> ELSE DepValues(edge.source)

C31_SimulateFrame ==
    (call.op = "simulate" /\ pf # NoPathfinder) =>
        \A path \in {SimPath} :
            /\ \A n \in 1..Len(pre.nodes) : n \notin InputNodes \cup path => hg.nodes[n].value = pre.nodes[n].value
            /\ \A n \in (1..Len(hg.nodes)) \ (1..Len(pre.nodes)) : hg.nodes[n].value = NoValue
            /\ \A n \in 1..Len(hg.nodes) : ~isSimple(hg.nodes[n]) => hg.nodes[n].value = NoValue
            /\ \A i \in 1..Len(call.inputs) : hg.nodes[getNode(hg, call.inputs[i].label)].value = <<call.inputs[i].value>>
            /\ LastCall.err = "none" =>
                   /\ hg.nodes[getNode(hg, call.target)].value = LastCall.val
                   /\ \A n \in path \ InputNodes : isSimple(hg.nodes[n]) =>
                          hg.nodes[n].value = Apply(pf.LAST[LabelOf(hg, n)].rel, PredValues(pf.LAST[LabelOf(hg, n)])).val

\* On the graph of basic.py, C was computed from A and E over D and F while
\* B, off the path, kept the value an earlier call had given it.
C31_Witness ==
    /\ OnBasicGraph
    /\ Len(ret) = 2
    /\ call.op = "simulate" /\ call.target = LabelC
    /\ call.inputs = <<Item(LabelA, 3), Item(LabelE, -7)>>
    /\ LastCall.err = "none" /\ LastCall.val = <<10>>
    /\ hg.nodes[getNode(hg, LabelB)].value = <<7>>
    /\ pre.nodes[getNode(hg, LabelB)].value = <<7>>
    /\ getNode(hg, LabelB) \notin SimPath
    /\ hg.nodes[getNode(hg, LabelD)].value = <<-3>>
    /\ hg.nodes[getNode(hg, LabelF)].value = <<-10>>
    /\ pre.nodes[getNode(hg, LabelF)].value = NoValue

(***************************************************************************)
(* C32: the hyperedge that addEdge(sources, target, rel, w) makes for more *)
(* than one source is carried by exactly one full edge from the Compound   *)
(* node to the target, and after a closure in which all the sources are    *)
(* settled the target is reached at no more than max(DIST of the sources)  *)
(* + w, and at exactly that cost when the hyperedge is its predecessor     *)
(* edge.                                                                   *)
(***************************************************************************)
SourcesSettled(z) == \A i \in 1..Len(hg.nodes[z].dependencies) : IsSettled(hg.nodes[z].dependencies[i])

HyperedgeCost(z, edge) == AddInf(MaxOf(Range(DepDists(z))), edge.weight)

C32_Original ==
    pc = "done" =>
        \A z \in CompoundNodesOf(hg) :
            /\ Len(hg.nodes[z].full_edges) = 1
            /\ \A edge \in Range(hg.nodes[z].full_edges) :
                   SourcesSettled(z) =>
                       /\ HyperedgeCost(z, edge) < Inf
                       /\ pf.DIST[LabelOf(hg, edge.target)] <= HyperedgeCost(z, edge)
                       /\ pf.LAST[LabelOf(hg, edge.target)] = edge => pf.DIST[LabelOf(hg, edge.target)] = HyperedgeCost(z, edge)

(***************************************************************************)
(* Simulation on a graph that grows: callers add edges with hg.addEdge     *)
(* between hg.simulate calls.                                              *)
(***************************************************************************)
MaxMutations == 1

\* A new node T behind C, and a cheaper edge from B to C.
Mutations == {EdgeCall(<<LabelC>>, LabelT, negation_rel, DefaultWeight), EdgeCall(<<LabelB>>, LabelC, negation_rel, 0)}

MutateTargets == {LabelC, LabelT}

MutateInputs ==
    {<<Item(LabelA, a), Item(LabelB, b)>> : a \in FirstValues, b \in SecondValues}
    \cup {<<Item(LabelA, a), Item(LabelE, e)>> : a \in FirstValues, e \in SecondValues}
    \cup {<<Item(LabelA, 12345)>>}

\* hg.addEdge(source, target, rel, weight) between two simulate calls.
SimAddEdge(c) ==
    /\ pc = "ready"
    /\ steps < MaxMutations
    /\ hg' = addEdge(hg, c.source, c.target, c.rel, c.weight)
    /\ call' = [NoCall EXCEPT !.op = "addEdge", !.source = c.source, !.target = c.target, !.rel = c.rel, !.weight = c.weight, !.given = TRUE]
    /\ pre' = hg
    /\ steps' = steps + 1
    /\ UNCHANGED <<pf, pc, ret>>

NextMutate ==
    \/ \E target \in MutateTargets, inputs \in MutateInputs : Simulate(target, inputs)
    \/ \E c \in Mutations : SimAddEdge(c)

SpecMutate == InitSim /\ [][NextMutate]_vars

(***************************************************************************)
(* C33: the closure that serves a hg.simulate call reflects the graph as   *)
(* it is at the call: its REACH, DIST and LAST maps are those of a closure *)
(* computed on that graph from the same inputs, so nodes and edges added   *)
(* since a closure for these inputs was cached are covered.                *)
(***************************************************************************)
FreshClosure == findPaths(pre, NoPathfinder, SourceNodes(pre, InputLabels(call.inputs)))

\* An edge as the labels of its ends, its weight and its relationship
\* (Node objects compare by label).
EdgeByLabel(h, edge) ==
    IF edge = NoEdge THEN <<>>
    ELSE <<[source |-> LabelOf(h, edge.source), target |-> LabelOf(h, edge.target), weight |-> edge.weight, rel |-> edge.rel.label]>>

LastByLabel(h, p) == [l \in DOMAIN p.LAST |-> EdgeByLabel(h, p.LAST[l])]

C33_Original ==
    (call.op = "simulate" /\ pf # NoPathfinder) =>
        \A fresh \in {FreshClosure} :
            fresh.pf.error = "none" =>
                /\ \A n \in 1..Len(pre.nodes) : LabelOf(pre, n) \in DOMAIN pf.REACH
                /\ pf.REACH = fresh.pf.REACH
                /\ pf.DIST = fresh.pf.DIST
                /\ LastByLabel(hg, pf) = LastByLabel(fresh.hg, fresh.pf)

(***************************************************************************)
(* C34: what hg.simulate(target, inputs) returns (or raises) depends on    *)
(* the structure of the graph, the target and the supplied values only:    *)
(* it is what the same call gives on the graph as it was built, without    *)
(* stored values and without the closures of earlier calls.                *)
(***************************************************************************)
\* h is g after some calls: g's nodes with their edges, possibly with
\* values, followed by the nodes the calls added.
BuiltFrom(g, h) ==
    /\ Len(g.nodes) <= Len(h.nodes)
    /\ \A n \in 1..Len(g.nodes) : [h.nodes[n] EXCEPT !.value = NoValue] = g.nodes[n]

AsBuilt == CHOOSE g \in SimGraphs : BuiltFrom(g, pre)

C34_HistoryIndependent ==
    call.op = "simulate" =>
        \A alone \in {simulate(AsBuilt, call.target, call.inputs)} :
            /\ LastCall.val = alone.val
            /\ LastCall.err = alone.err

\* On the graph of basic.py C was first computed from A and E, which left
\* values on D, F and C and a cached closure, and then from A and B.
C34_Witness ==
    /\ OnBasicGraph
    /\ Len(ret) = 2
    /\ ret[1].inputs = <<Item(LabelA, -7), Item(LabelE, 7)>> /\ ret[1].target = LabelC /\ ret[1].val = <<-14>>
    /\ call.op = "simulate" /\ call.target = LabelC
    /\ call.inputs = <<Item(LabelA, 3), Item(LabelB, 7)>>
    /\ LastCall.val = <<10>>
    /\ pre.nodes[getNode(pre, LabelC)].value = <<-14>>
    /\ Len(pre.pathfinders) = 1
    /\ pre # AsBuilt

(***************************************************************************)
(* C35: in every closure computation, the first and every later one on     *)
(* the same Hypergraph, the label of the synthetic source node differs     *)
(* from the label of every other node in the graph's node lists, so that   *)
(* no two nodes share a REACH, DIST or LAST entry.                         *)
(***************************************************************************)
SharesEntry(h, n, m) == n # m /\ LabelOf(h, n) = LabelOf(h, m)

C35_Original ==
    (call.op = "simulate" /\ pf # NoPathfinder) =>
        /\ pf.source \in 1..Len(hg.nodes)
        /\ \A n \in Range(hg.simple_nodes) \cup Range(hg.compnd_nodes) : ~SharesEntry(hg, n, pf.source)

(***************************************************************************)
(* C36: a new closure on a Hypergraph leaves the REACH, DIST and LAST maps *)
(* of every Pathfinder computed on it before unchanged, and dist and       *)
(* getPath on an earlier Pathfinder give for every node what they gave     *)
(* before.                                                                 *)
(***************************************************************************)
NewClosure == call.op = "simulate" /\ Len(hg.pathfinders) = Len(pre.pathfinders) + 1

C36_EarlierClosuresKept ==
    NewClosure =>
        \A k \in 1..Len(pre.pathfinders) :
            /\ hg.pathfinders[k].REACH = pre.pathfinders[k].REACH
            /\ hg.pathfinders[k].DIST = pre.pathfinders[k].DIST
            /\ hg.pathfinders[k].LAST = pre.pathfinders[k].LAST
            /\ hg.pathfinders[k].source_set = pre.pathfinders[k].source_set
            /\ \A n \in 1..Len(pre.nodes) : getPath(hg, hg.pathfinders[k], n) = getPath(pre, pre.pathfinders[k], n)

\* On the graph of basic.py a closure from A and E was computed after the
\* closure from A and B, which still gives C at distance 1 over the path
\* source, A, source, B, AB, C.
C36_Witness ==
    /\ NewClosure
    /\ OnBasicGraph
    /\ Len(pre.pathfinders) = 1
    /\ LabelsOf(hg, hg.pathfinders[1].source_set) = {LabelA, LabelB}
    /\ LabelsOf(hg, hg.pathfinders[2].source_set) = {LabelA, LabelE}
    /\ hg.pathfinders[1].DIST[LabelC] = 1
    /\ hg.pathfinders[2].DIST[LabelC] = 3
    /\ Len(getPath(hg, hg.pathfinders[1], getNode(hg, LabelC))) = 6
    /\ hg.pathfinders[1].REACH # hg.pathfinders[2].REACH

(***************************************************************************)
(* C37: after a closure, for every settled Simple node n other than the    *)
(* search source, LAST[n] is an edge whose target is n and                 *)
(* DIST[n] = DIST[source of LAST[n]] + weight of LAST[n], where the DIST   *)
(* of a Compound source is the maximum of its dependencies' DIST.          *)
(***************************************************************************)
SourceDist(edge) ==
    IF isSimple(hg.nodes[edge.source]) THEN pf.DIST[LabelOf(hg, edge.source)] ELSE MaxOf(Range(DepDists(edge.source)))

C37_LastExplainsDist ==
    pc = "done" =>
        \A n \in SettledSimple :
            \A edge \in {pf.LAST[LabelOf(hg, n)]} :
                /\ edge # NoEdge
                /\ edge.target = n
                /\ edge.weight >= 0
                /\ edge \in Range(hg.nodes[edge.source].full_edges)
                /\ pf.DIST[LabelOf(hg, edge.source)] = SourceDist(edge)
                /\ pf.DIST[LabelOf(hg, n)] = AddInf(SourceDist(edge), edge.weight)
                /\ pf.DIST[LabelOf(hg, n)] < Inf

\* A finished closure in which one node was settled at a positive distance
\* over an edge from a Simple node and another over a hyperedge of positive
\* weight whose dependencies lie at different distances.
C37_Witness ==
    /\ pc = "done"
    /\ \E n \in SettledSimple :
           /\ isSimple(hg.nodes[pf.LAST[LabelOf(hg, n)].source])
           /\ pf.LAST[LabelOf(hg, n)].weight > 0
           /\ pf.DIST[LabelOf(hg, pf.LAST[LabelOf(hg, n)].source)] > 0
    /\ \E n \in SettledSimple :
           /\ ~isSimple(hg.nodes[pf.LAST[LabelOf(hg, n)].source])
           /\ Cardinality(Range(DepDists(pf.LAST[LabelOf(hg, n)].source))) > 1
           /\ pf.LAST[LabelOf(hg, n)].weight > 0

(***************************************************************************)
(* Router / Route.  A Route is the ordered sequence of its steps; a step   *)
(* names the node reached and the edge that reached it.  In this part pf   *)
(* is the Router (its list of routes), pre the Router before the last      *)
(* call and ret the route the call returned.                               *)
(***************************************************************************)
MaxRouteOps == 2

RouteStep(sources, target) == [targetNode |-> target, edgeUsed |-> [sources |-> sources, target |-> target]]

Router(routes) == [routes |-> routes]

\* A slip that keeps the last of the routes that tie for the fewest steps.
RECURSIVE getShortestRoute_LastTie(_, _, _)
getShortestRoute_LastTie(routes, i, best) ==
    IF i > Len(routes) THEN routes[best]
    ELSE IF Len(routes[i]) <= Len(routes[best]) THEN getShortestRoute_LastTie(routes, i + 1, i)
    ELSE getShortestRoute_LastTie(routes, i + 1, best)

\* getShortestRoute: one pass over the routes from position i on, best being
\* the position of the shortest route found so far; a later route replaces
\* it only when it has strictly fewer steps.
RECURSIVE getShortestRoute(_, _, _)
getShortestRoute(routes, i, best) ==
    IF i > Len(routes) THEN routes[best]
    ELSE IF Len(routes[i]) < Len(routes[best]) THEN getShortestRoute(routes, i + 1, i)
    ELSE getShortestRoute(routes, i + 1, best)

\* The final node of a route: the node its last step reaches.
FinalNode(route) == route[Len(route)].targetNode

\* A slip that puts the secondary route behind the step that needs it.
RECURSIVE Splice_After(_, _, _)
Splice_After(done, rest, secondary) ==
    IF rest = <<>> THEN secondary \o done
    ELSE IF FinalNode(secondary) \in Range(Head(rest).edgeUsed.sources) THEN done \o <<Head(rest)>> \o secondary \o Tail(rest)
    ELSE Splice_After(Append(done, Head(rest)), Tail(rest), secondary)

\* primary += secondary: walk the primary route; the secondary route goes
\* in front of the first step whose edge sources include its final node,
\* and in front of the whole route when the walk finds no such step.
RECURSIVE Splice(_, _, _)
Splice(done, rest, secondary) ==
    IF rest = <<>> THEN secondary \o done
    ELSE IF FinalNode(secondary) \in Range(Head(rest).edgeUsed.sources) THEN done \o secondary \o rest
    ELSE Splice(Append(done, Head(rest)), Tail(rest), secondary)

\* The edges of simple.py as steps, and routes made of them.
StepAD == RouteStep(<<LabelA>>, LabelD)

StepDC == RouteStep(<<LabelD>>, LabelC)

StepAF == RouteStep(<<LabelA>>, LabelF)

StepAFBE == RouteStep(<<LabelA, LabelF, LabelB>>, LabelE)

StepEC == RouteStep(<<LabelE>>, LabelC)

BaseRoutes == {<<StepAF>>, <<StepAD, StepDC>>, <<StepAFBE, StepEC>>, <<StepAF, StepAFBE, StepEC>>, <<StepAD, StepAF, StepAFBE, StepEC>>}

InitRoute ==
    /\ hg = NewHypergraph
    /\ pf \in {Router(<<r1, r2, r3>>) : r1, r2, r3 \in BaseRoutes}
    /\ pc = "router"
    /\ call = NoCall
    /\ pre = Router(<<>>)
    /\ ret = <<>>
    /\ steps = 0

\* router.getShortestRoute(router.routes)
GetShortestRoute ==
    /\ pc = "router"
    /\ steps < MaxRouteOps
    /\ ret' = getShortestRoute(pf.routes, 2, 1)
    /\ call' = [NoCall EXCEPT !.op = "getShortestRoute"]
    /\ pre' = pf
    /\ steps' = steps + 1
    /\ UNCHANGED <<hg, pf, pc>>

\* routes[i] += routes[j]
Compose(i, j) ==
    /\ pc = "router"
    /\ steps < MaxRouteOps
    /\ pf' = [pf EXCEPT !.routes[i] = Splice(<<>>, pf.routes[i], pf.routes[j])]
    /\ ret' = pf'.routes[i]
    /\ call' = [NoCall EXCEPT !.op = "iadd", !.source = <<i>>, !.target = <<j>>]
    /\ pre' = pf
    /\ steps' = steps + 1
    /\ UNCHANGED <<hg, pc>>

NextRoute ==
    \/ GetShortestRoute
    \/ \E i, j \in 1..3 : Compose(i, j)

SpecRoute == InitRoute /\ [][NextRoute]_vars

(***************************************************************************)
(* C22: getShortestRoute returns a route with the fewest steps among the   *)
(* given routes, the first of them in the given order when several tie;    *)
(* over routes of 4, 2 and 3 steps it returns the route of 2 steps.        *)
(***************************************************************************)
RouteLengths(routes) == [i \in 1..Len(routes) |-> Len(routes[i])]

C22_ShortestRoute ==
    call.op = "getShortestRoute" =>
        /\ \E i \in 1..Len(pre.routes) :
               /\ ret = pre.routes[i]
               /\ \A j \in 1..Len(pre.routes) : Len(ret) <= Len(pre.routes[j])
               /\ \A j \in 1..(i - 1) : Len(ret) < Len(pre.routes[j])
        /\ RouteLengths(pre.routes) = <<4, 2, 3>> => Len(ret) = 2

\* The routes have 4, 2 and 3 steps and the route of 2 steps is returned.
C22_Witness ==
    /\ call.op = "getShortestRoute"
    /\ RouteLengths(pre.routes) = <<4, 2, 3>>
    /\ ret = pre.routes[2]
    /\ Len(ret) = 2

(***************************************************************************)
(* C23: primary += secondary puts all steps of the secondary route, in     *)
(* order, immediately before the first step of the primary route whose     *)
(* edge sources include the secondary route's final node, and in front of  *)
(* the primary route when it has no such step; the steps of the primary    *)
(* route keep their order, and the other routes are left alone.            *)
(***************************************************************************)
NeedingSteps(primary, secondary) == {k \in 1..Len(primary) : FinalNode(secondary) \in Range(primary[k].edgeUsed.sources)}

SplicePos(primary, secondary) == IF NeedingSteps(primary, secondary) = {} THEN 1 ELSE MinOf(NeedingSteps(primary, secondary))

Primary == pre.routes[call.source[1]]

Secondary == pre.routes[call.target[1]]

C23_Composition ==
    call.op = "iadd" =>
        /\ ret = SubSeq(Primary, 1, SplicePos(Primary, Secondary) - 1) \o Secondary \o SubSeq(Primary, SplicePos(Primary, Secondary), Len(Primary))
        /\ pf.routes[call.source[1]] = ret
        /\ \A m \in 1..Len(pre.routes) : m # call.source[1] => pf.routes[m] = pre.routes[m]

\* A secondary route of two steps went into the middle of the primary route.
C23_Witness ==
    /\ call.op = "iadd"
    /\ Len(Secondary) >= 2
    /\ NeedingSteps(Primary, Secondary) # {}
    /\ SplicePos(Primary, Secondary) >= 2
    /\ SplicePos(Primary, Secondary) < Len(Primary)
    /\ Len(ret) = Len(Primary) + Len(Secondary)
====
